---------------------------- MODULE Spec2Model ----------------------------
(***************************************************************************)
(* Order execution and position state engine of trader_webull.             *)
(*                                                                         *)
(* The control loop (src/src/main.rs, main), the four order monitors       *)
(* (monitor_{buy,sell}_{stock,option}_and_update), the polling primitive   *)
(* (poll_until_filled) and the position ledger (src/src/state.rs,          *)
(* BotState) are modelled as one state machine.  A state of the model is   *)
(* a set of suspended tasks: every pc value names the `.await` a task is   *)
(* suspended at, and every action is the code that runs between two        *)
(* awaits.  The brokerage (webull_client.rs) is an external collaborator:  *)
(* each of its calls returns any value of its result type.                 *)
(*                                                                         *)
(* Numbers.  Quantities and prices are f64/u32 in the source; the model    *)
(* uses non-negative integers for reported quantities and prices and exact *)
(* rationals [n, d] for average cost and realized P/L, so the 1e-9 / 1e-6  *)
(* tolerances of the source become exact comparisons.                      *)
(***************************************************************************)
EXTENDS Integers, Sequences, FiniteSets, TLC

\* ------------------------------------------------------------------ bounds
MaxSignals == 2   \* signals the control loop takes (one monitor each at most)
MaxQty == 2       \* largest requested / reported quantity
MaxPrice == 2     \* largest price (in ticks)
MaxPolls == 2     \* status queries of one poll_until_filled before its deadline
MaxSyncs == 1     \* periodic resync ticks

Free == -1        \* the ledger mutex is not held
MainTask == 0     \* the control loop; monitors are tasks 1..MaxSignals

Monitors == 1..MaxSignals

\* -------------------------------------------------------------- rationals
RECURSIVE GCD(_, _)
GCD(a, b) == IF b = 0 THEN a ELSE GCD(b, a % b)

Abs(x) == IF x < 0 THEN -x ELSE x

\* the rational n/d in lowest terms, d > 0
Rat(n, d) ==
  LET g == GCD(Abs(n), Abs(d))
      s == IF d < 0 THEN -1 ELSE 1
  IN  IF n = 0 THEN [n |-> 0, d |-> 1]
      ELSE [n |-> s * (n \div g), d |-> s * (d \div g)]

RInt(i) == [n |-> i, d |-> 1]
RAdd(a, b) == Rat(a.n * b.d + b.n * a.d, a.d * b.d)
RSub(a, b) == Rat(a.n * b.d - b.n * a.d, a.d * b.d)
RMul(a, b) == Rat(a.n * b.n, a.d * b.d)
RDiv(a, b) == Rat(a.n * b.d, a.d * b.n)

\* ------------------------------------------------------------------ types
\* str::to_ascii_uppercase / eq_ignore_ascii_case over the symbols in use
to_ascii_uppercase(s) ==
  CASE s = "aapl" -> "AAPL"
    [] OTHER -> s

eq_ignore_ascii_case(a, b) == to_ascii_uppercase(a) = to_ascii_uppercase(b)

\* types.rs: Holding::Stock / Holding::Option
StockHolding(sym, q, c) ==
  [kind |-> "Stock", symbol |-> sym, strike |-> 0, call_put |-> "-",
   expiry_mmdd |-> "-", quantity |-> q, avg_cost |-> c]

OptionHolding(sym, k, cp, exp, q, c) ==
  [kind |-> "Option", symbol |-> sym, strike |-> k, call_put |-> cp,
   expiry_mmdd |-> exp, quantity |-> q, avg_cost |-> c]

\* types.rs: PlEntry
PlEntry(date, asset, q, pl) ==
  [date |-> date, asset |-> asset, qty |-> q, realized_pl |-> pl]

\* BotState::default
EmptyState == [holdings |-> <<>>, daily_pl |-> <<>>]

\* the least index of a non-empty set of indices
MinOf(S) == CHOOSE i \in S : \A j \in S : i <= j

\* Iterator::find / the first loop iteration that matches: the first index
\* among the matching ones, 0 when there is none
FirstIdx(S) == IF S = {} THEN 0 ELSE MinOf(S)

RemoveAt(s, i) == SubSeq(s, 1, i - 1) \o SubSeq(s, i + 1, Len(s))

RECURSIVE SumSeq(_)
SumSeq(s) == IF s = <<>> THEN 0 ELSE Head(s) + SumSeq(Tail(s))

\* ----------------------------------------------------------------- ledger
MatchStock(h, symbol) ==
  h.kind = "Stock" /\ eq_ignore_ascii_case(h.symbol, to_ascii_uppercase(symbol))

\* the key test of upsert_option_buy_with_cost and realize_option_sell
MatchOption(h, symbol, strike, cp, expiry_mmdd) ==
  /\ h.kind = "Option"
  /\ eq_ignore_ascii_case(h.symbol, to_ascii_uppercase(symbol))
  /\ h.strike = strike
  /\ to_ascii_uppercase(h.call_put) = to_ascii_uppercase(cp)
  /\ h.expiry_mmdd = expiry_mmdd

\* the key test of position_qty_option: the pattern binds the holding's
\* field to the name expiry_mmdd, which shadows the parameter, so the last
\* conjunct compares the holding's expiry with itself
MatchOptionQty(h, symbol, strike, cp, expiry_mmdd) ==
  /\ h.kind = "Option"
  /\ eq_ignore_ascii_case(h.symbol, to_ascii_uppercase(symbol))
  /\ h.strike = strike
  /\ to_ascii_uppercase(h.call_put) = to_ascii_uppercase(cp)
  /\ h.expiry_mmdd = h.expiry_mmdd

position_qty_stock(st, symbol) ==
  LET hs == st.holdings
  IN  SumSeq([i \in 1..Len(hs) |->
                IF MatchStock(hs[i], symbol) THEN hs[i].quantity ELSE 0])

position_qty_option(st, symbol, strike, cp, expiry_mmdd) ==
  LET hs == st.holdings
  IN  SumSeq([i \in 1..Len(hs) |->
                IF MatchOptionQty(hs[i], symbol, strike, cp, expiry_mmdd)
                THEN hs[i].quantity ELSE 0])

\* the indices of the holdings with the stock key / the option key
StockIdx(hs, symbol) == {i \in 1..Len(hs) : MatchStock(hs[i], symbol)}

OptionIdx(hs, symbol, strike, cp, expiry_mmdd) ==
  {i \in 1..Len(hs) : MatchOption(hs[i], symbol, strike, cp, expiry_mmdd)}

\* mutant of set_holdings: the listing is added to the holdings kept
set_holdings_merge(st, new_holdings) ==
  [st EXCEPT !.holdings = @ \o new_holdings]

set_holdings(st, new_holdings) == [st EXCEPT !.holdings = new_holdings]

\* mutant of AddFill: the average cost is the mean of the old one and the
\* fill's price, whatever the quantities
AddFillUnweighted(h, fill_qty, fill_price) ==
  [h EXCEPT !.quantity = @ + fill_qty,
            !.avg_cost = RDiv(RAdd(@, RInt(fill_price)), RInt(2))]

\* mutant of AddFill: the fill's price becomes the average cost
AddFillLastPrice(h, fill_qty, fill_price) ==
  [h EXCEPT !.quantity = @ + fill_qty, !.avg_cost = RInt(fill_price)]

\* the weighted-average update of an existing holding
AddFill(h, fill_qty, fill_price) ==
  LET total_cost == RAdd(RMul(h.avg_cost, RInt(h.quantity)),
                         RInt(fill_price * fill_qty))
      quantity == h.quantity + fill_qty
  IN  [h EXCEPT !.quantity = quantity,
                !.avg_cost = IF quantity > 0 THEN RDiv(total_cost, RInt(quantity))
                             ELSE RInt(0)]

upsert_stock_buy_with_cost(st, symbol, fill_qty, fill_price) ==
  LET sym == to_ascii_uppercase(symbol)
      i == FirstIdx(StockIdx(st.holdings, symbol))
  IN  IF i # 0
      THEN [st EXCEPT !.holdings[i] = AddFill(@, fill_qty, fill_price)]
      ELSE [st EXCEPT !.holdings =
              Append(@, StockHolding(sym, fill_qty, RInt(fill_price)))]

upsert_option_buy_with_cost(st, symbol, strike, cp, expiry_mmdd, fill_qty, fill_price) ==
  LET sym == to_ascii_uppercase(symbol)
      cp_u == to_ascii_uppercase(cp)
      i == FirstIdx(OptionIdx(st.holdings, symbol, strike, cp, expiry_mmdd))
  IN  IF i # 0
      THEN [st EXCEPT !.holdings[i] = AddFill(@, fill_qty, fill_price)]
      ELSE [st EXCEPT !.holdings =
              Append(@, OptionHolding(sym, strike, cp_u, expiry_mmdd,
                                      fill_qty, RInt(fill_price)))]

\* mutant of Min: the sold quantity is not capped by the quantity held
MinLeft(a, b) == a

Min(a, b) == IF a <= b THEN a ELSE b

\* the value realize_*_sell returns: `realized`, 0.0 unless a holding matches
RealizedPl(st, i, sell_qty, sell_price, mult) ==
  IF i = 0 THEN RInt(0)
  ELSE LET h == st.holdings[i]
           q == Min(sell_qty, h.quantity)
       IN  RMul(RSub(RInt(sell_price), h.avg_cost), RInt(q * mult))

\* mutant of RealizeAt: the day's entry replaces daily_pl
RealizeAtOverwrite(st, i, asset, sell_qty, sell_price, date, mult) ==
  IF i = 0 THEN st
  ELSE LET h == st.holdings[i]
           q == Min(sell_qty, h.quantity)
           left == h.quantity - q
           hs == [st.holdings EXCEPT ![i].quantity = left]
       IN  [holdings |-> IF left <= 0 THEN RemoveAt(hs, i) ELSE hs,
            daily_pl |-> <<PlEntry(date, asset, q,
                                   RealizedPl(st, i, sell_qty, sell_price, mult))>>]

\* mutant of RealizeAt: a sale that matches no holding is recorded with
\* quantity 0
RealizeAtRecordsMiss(st, i, asset, sell_qty, sell_price, date, mult) ==
  IF i = 0
  THEN [st EXCEPT !.daily_pl = Append(@, PlEntry(date, asset, 0, RInt(0)))]
  ELSE LET h == st.holdings[i]
           q == Min(sell_qty, h.quantity)
           left == h.quantity - q
           hs == [st.holdings EXCEPT ![i].quantity = left]
       IN  [holdings |-> IF left <= 0 THEN RemoveAt(hs, i) ELSE hs,
            daily_pl |-> Append(st.daily_pl,
                                PlEntry(date, asset, q,
                                        RealizedPl(st, i, sell_qty, sell_price, mult)))]

\* the body shared by realize_stock_sell and realize_option_sell: i is the
\* first matching holding (0: none), mult the contract multiplier
RealizeAt(st, i, asset, sell_qty, sell_price, date, mult) ==
  IF i = 0 THEN st
  ELSE LET h == st.holdings[i]
           q == Min(sell_qty, h.quantity)
           realized == RealizedPl(st, i, sell_qty, sell_price, mult)
           left == h.quantity - q
           hs == [st.holdings EXCEPT ![i].quantity = left]
       IN  [holdings |-> IF left <= 0 THEN RemoveAt(hs, i) ELSE hs,
            daily_pl |-> Append(st.daily_pl, PlEntry(date, asset, q, realized))]

realize_stock_sell(st, symbol, sell_qty, sell_price, date) ==
  LET sym == to_ascii_uppercase(symbol)
      i == FirstIdx(StockIdx(st.holdings, symbol))
  IN  RealizeAt(st, i, sym, sell_qty, sell_price, date, 1)

realize_option_sell(st, symbol, strike, cp, expiry_mmdd, sell_qty, sell_price, date) ==
  LET sym == to_ascii_uppercase(symbol)
      cp_u == to_ascii_uppercase(cp)
      i == FirstIdx(OptionIdx(st.holdings, symbol, strike, cp, expiry_mmdd))
      asset == <<sym, strike, cp_u, expiry_mmdd>>
  IN  RealizeAt(st, i, asset, sell_qty, sell_price, date, 100)

\* ------------------------------------------------------------- brokerage
\* webull_client.rs: OrderStatus (Unknown(String) carries a raw code the
\* monitors never read)
OrderStatuses ==
  {"Working", "PartiallyFilled", "Filled", "Canceled", "Rejected", "Unknown"}

TerminalStatuses == {"Filled", "Canceled", "Rejected"}
OpenStatuses == {"PartiallyFilled", "Working", "Unknown"}

\* webull_client.rs: OrderInfo, every value get_order_info can return with
\* quantities up to Q and prices up to P
OrderInfos(Q, P) ==
  [status : OrderStatuses, filled_qty : 0..Q, avg_fill_price : 1..P]

NoInfo == [status |-> "None", filled_qty |-> 0, avg_fill_price |-> 0]

\* the signal's expiry as the parser captures it (MM/DD) and the expiry of
\* a position as positions_simple renders it (last4_digits: digits only)
SignalExpiry == "08/16"
SnapshotExpiry == "0816"
Strike == 150
Today == "D"

\* positions_simple: the holdings snapshots the brokerage returns (a stock
\* position, an option position, both or none), with quantity Q
Snapshots(Q) ==
  LET S == StockHolding("AAPL", Q, RInt(1))
      O == OptionHolding("AAPL", Strike, "C", SnapshotExpiry, Q, RInt(1))
  IN  {<<>>, <<S>>, <<O>>, <<S, O>>}

\* types.rs: TradeSignal, as parse_signal builds it: limit_price is Some(p)
\* (here p > 0) exactly when order_type is Limit
Signals(Q, P) ==
  LET Px == {[order_type |-> "Market", limit_price |-> 0]} \cup
            {[order_type |-> "Limit", limit_price |-> p] : p \in 1..P}
  IN  {[symbol |-> "AAPL",
        strike |-> IF a = "Option" THEN Strike ELSE 0,
        call_put |-> IF a = "Option" THEN "C" ELSE "-",
        expiry_mmdd |-> IF a = "Option" THEN SignalExpiry ELSE "-",
        quantity |-> q, asset |-> a, order_type |-> px.order_type,
        limit_price |-> px.limit_price, action |-> act] :
         a \in {"Stock", "Option"}, act \in {"BTO", "STC"}, q \in 1..Q, px \in Px}

NoSignal ==
  [symbol |-> "-", strike |-> 0, call_put |-> "-", expiry_mmdd |-> "-",
   quantity |-> 0, asset |-> "-", order_type |-> "-", limit_price |-> 0,
   action |-> "-"]

\* ------------------------------------------------------------------ state
VARIABLES
  state,     \* the BotState behind Arc<Mutex<..>>: [holdings, daily_pl]
  disk,      \* the BotState last written to the state file by save
  lock,      \* the task holding the ledger mutex, or Free
  cfg,       \* AppConfig: dry_run, sell_is_market, max_position_value
  ctl,       \* the control loop: its await point and its locals
  mon,       \* the monitor tasks: their await points and their locals
  nsig,      \* signals received so far
  nsync,     \* sync ticks fired so far
  next_oid,  \* the next order id the brokerage hands out
  tracing,   \* what log records: "off", the monitors' "calls", or their
             \* status "queries" as well
  log,       \* per monitor: its parameters, then the calls it has made
  calls,     \* the calls made on the ledger or the risk engine taken alone
  book       \* the brokerage's book of the orders of the monitor under study

vars == <<state, disk, lock, cfg, ctl, mon, nsig, nsync, next_oid, tracing, log,
          calls, book>>

\* a monitor that is not running: not spawned yet, or returned (its locals
\* are dropped)
IdleMon ==
  [kind |-> "Stock", symbol |-> "-", strike |-> 0, cp |-> "-", qty |-> 0,
   action |-> "BTO", pc |-> "idle", expiry |-> "-", was_market |-> FALSE,
   order_id |-> 0, polls |-> 0, info |-> NoInfo, remaining |-> 0, mid |-> 0]

DoneMon == [IdleMon EXCEPT !.pc = "done"]
PanickedMon == [IdleMon EXCEPT !.pc = "panicked"]

\* the monitor spawned for an order (main.rs 163-169, 231-237), suspended in
\* the first get_order_info of poll_until_filled
SpawnedMon(kind, action, symbol, strike, cp, expiry, qty, was_market, order_id) ==
  [IdleMon EXCEPT !.pc = "poll", !.kind = kind, !.action = action,
                  !.symbol = symbol, !.strike = strike, !.cp = cp,
                  !.expiry = expiry, !.qty = qty, !.was_market = was_market,
                  !.order_id = order_id]

\* a recorded call: op is "polled" (a poll_until_filled result), "upsert",
\* "realize", "save", "cancel" or "place_market"; phase is 1 for what follows
\* the original order's poll result and 2 for the follow-up order's
Ev(op, status, qty, price, oid, phase) ==
  [op |-> op, status |-> status, qty |-> qty, price |-> price, oid |-> oid,
   phase |-> phase]

Record(m, evs) == IF tracing # "off" THEN [log EXCEPT ![m] = @ \o evs] ELSE log

\* a status query after which the polling goes on
RecordQuery(m, evs) ==
  IF tracing = "queries" THEN [log EXCEPT ![m] = @ \o evs] ELSE log

\* the network awaits of a monitor and of the control loop
MonNetworkPcs == {"poll", "poll2", "cancel", "find_contract", "place"}
CtlNetworkPcs == {"init_positions", "sync_positions", "find", "quote", "place"}

\* --------------------------------------------------------------- monitors
\* `info.filled_qty as u32` in the option monitors: on the non-negative
\* integers the model reports, the cast changes nothing
as_u32(q) == IF q < 0 THEN 0 ELSE q

ReportedFill(r, info) ==
  IF r.kind = "Option" THEN as_u32(info.filled_qty) ELSE info.filled_qty

\* mutants of CommitQty: every arm passes the reported filled quantity /
\* every arm passes the requested quantity
CommitQtyReported(r, info) == ReportedFill(r, info)

CommitQtyRequested(r, info) == r.qty

\* the quantity the monitor commits for the original order's poll result:
\* the Filled arm passes the requested quantity, the other arms the reported
\* filled quantity (main.rs 301, 308, 345, 352, 415, 427, 475, 490)
CommitQty(r, info) ==
  IF info.status = "Filled" THEN r.qty ELSE ReportedFill(r, info)

\* mutant of NeedsCommit: only the Filled arm commits
NeedsCommitFilledOnly(r, info) == info.status = "Filled"

\* whether the match arm taken for the poll result mutates the ledger
NeedsCommit(r, info) ==
  IF r.action = "BTO"
  THEN \/ info.status = "Filled"
       \/ info.status = "PartiallyFilled" /\ ReportedFill(r, info) > 0
  ELSE \/ info.status = "Filled"
       \/ info.status \in OpenStatuses /\ ReportedFill(r, info) > 0

\* mutant of NeedsCommit2: the follow-up's result is committed whatever it is
NeedsCommit2Always(r, info) == TRUE

\* whether the follow-up order's poll result is committed (main.rs 372, 520)
NeedsCommit2(r, info) == info.filled_qty > 0

\* mutants of NeedsCancel: the Filled arm cancels too / a buy is cancelled
\* only when partially filled / a market sell is cancelled like a limit sell
NeedsCancelFilledToo(r, info) ==
  IF r.action = "BTO"
  THEN info.status \in OpenStatuses \cup {"Filled"}
  ELSE info.status \in OpenStatuses \cup {"Filled"} /\ ~r.was_market

NeedsCancelPartialOnly(r, info) ==
  IF r.action = "BTO"
  THEN info.status = "PartiallyFilled"
  ELSE info.status \in OpenStatuses /\ ~r.was_market

NeedsCancelAnyMode(r, info) == info.status \in OpenStatuses

\* mutant of NeedsCancel: an order the brokerage canceled or rejected is
\* cancelled like one still open
NeedsCancelUnlessFilled(r, info) ==
  IF r.action = "BTO"
  THEN info.status # "Filled"
  ELSE info.status # "Filled" /\ ~r.was_market

\* whether the match arm taken for the poll result cancels the order
NeedsCancel(r, info) ==
  IF r.action = "BTO"
  THEN info.status \in OpenStatuses
  ELSE info.status \in OpenStatuses /\ ~r.was_market

\* the ledger call of a commit
ApplyFill(st, r, q, price) ==
  CASE r.kind = "Stock" /\ r.action = "BTO" ->
         upsert_stock_buy_with_cost(st, r.symbol, q, price)
    [] r.kind = "Option" /\ r.action = "BTO" ->
         upsert_option_buy_with_cost(st, r.symbol, r.strike, r.cp, r.expiry, q, price)
    [] r.kind = "Stock" /\ r.action = "STC" ->
         realize_stock_sell(st, r.symbol, q, price, Today)
    [] r.kind = "Option" /\ r.action = "STC" ->
         realize_option_sell(st, r.symbol, r.strike, r.cp, r.expiry, q, price, Today)

FillOp(r) == IF r.action = "BTO" THEN "upsert" ELSE "realize"

\* mutant of Remaining: the whole order is sent again
RemainingRequested(orig_qty, filled) == orig_qty

\* `(orig_qty - filled).max(0.0)` / `orig_qty.saturating_sub(filled)`
Remaining(orig_qty, filled) == IF orig_qty - filled > 0 THEN orig_qty - filled ELSE 0

\* the monitor issues cancel_order for its original order and suspends in it
IssueCancel(m, r, evs) ==
  /\ mon' = [mon EXCEPT ![m] = [r EXCEPT !.pc = "cancel"]]
  /\ log' = Record(m, evs \o <<Ev("cancel", "-", 0, 0, r.order_id, 1)>>)

\* the monitor function returns
Return(m, evs) ==
  /\ mon' = [mon EXCEPT ![m] = DoneMon]
  /\ log' = Record(m, evs)

\* what follows the commit of the original order's fill, or the poll result
\* when nothing is committed: the cancel of the arm, or the end of the match
AfterFill(m, r, evs) ==
  IF NeedsCancel(r, r.info) THEN IssueCancel(m, r, evs) ELSE Return(m, evs)

\* mutant of PollEnds: only Filled ends the polling before the deadline
PollEndsFilledOnly(info, elapsed) == info.status = "Filled" \/ elapsed

\* the status returns at once (main.rs 271-275), or the deadline has passed
\* (main.rs 276-278)
PollEnds(info, elapsed) == info.status \in TerminalStatuses \/ elapsed

\* mutant of PollFails: the monitor cancels the order it could not query
PollFailsCancels(m, phase) ==
  IssueCancel(m, mon[m], <<Ev("poll_err", "-", 0, 0, 0, phase)>>)

\* get_order_info failed: `?` ends poll_until_filled, and its caller returns
\* (original order) or skips the commit of the follow-up (`if let Ok(i2)`)
PollFails(m, phase) == Return(m, <<Ev("poll_err", "-", 0, 0, 0, phase)>>)

\* poll_until_filled: get_order_info returns.  Err is propagated by `?`;
\* a terminal status returns at once; otherwise the deadline is tested and
\* the loop sleeps.  The clock is the environment's: the deadline may have
\* passed at any test, and has passed at the MaxPolls-th.
PollReturn(m, Infos) ==
  LET r == mon[m]
      phase == IF r.pc = "poll" THEN 1 ELSE 2
  IN
  /\ r.pc \in {"poll", "poll2"}
  /\ UNCHANGED <<state, disk, lock, cfg, ctl, nsig, nsync, next_oid, tracing, calls, book>>
  /\ \/ PollFails(m, phase)
     \/ \E info \in Infos, elapsed \in BOOLEAN :
          LET n == r.polls + 1
              got == [r EXCEPT !.info = info, !.polls = n]
              ev == <<Ev("polled", info.status, info.filled_qty,
                         info.avg_fill_price, 0, phase)>>
          IN
          /\ n >= MaxPolls => elapsed
          /\ IF ~PollEnds(info, elapsed)
             THEN /\ mon' = [mon EXCEPT ![m] =
                       [r EXCEPT !.polls = n,
                                 !.pc = IF phase = 1 THEN "sleep" ELSE "sleep2"]]
                  /\ log' = RecordQuery(m, <<Ev("queried", info.status,
                                                0, 0, 0, phase)>>)
             ELSE IF phase = 1
             THEN IF NeedsCommit(r, info)
                  THEN /\ mon' = [mon EXCEPT ![m] = [got EXCEPT !.pc = "lock_fill"]]
                       /\ log' = Record(m, ev)
                  ELSE AfterFill(m, got, ev)
             ELSE IF NeedsCommit2(r, info)
                  THEN /\ mon' = [mon EXCEPT ![m] = [got EXCEPT !.pc = "lock_fill2"]]
                       /\ log' = Record(m, ev)
                  ELSE Return(m, ev)

\* poll_until_filled: the 800 ms sleep ends and the next query is sent
SleepReturn(m) ==
  /\ mon[m].pc \in {"sleep", "sleep2"}
  /\ mon' = [mon EXCEPT ![m].pc = IF @ = "sleep" THEN "poll" ELSE "poll2"]
  /\ UNCHANGED <<state, disk, lock, cfg, ctl, nsig, nsync, next_oid, tracing, calls, book, log>>

\* anyhow::Result of a call, as its caller tells its values apart
CallResults == {"Ok", "Err"}

\* mutants of Aborts: the Err of cancel_order / of save ends the monitor,
\* as a `?` would
AbortsOnCancelErr(call, res) == call = "cancel_order" /\ res = "Err"

AbortsOnSaveErr(call, res) == call = "save" /\ res = "Err"

\* `let _ = wb.cancel_order(&order_id).await;` and `let _ = st.save(..);`:
\* the result is dropped, so no value of it ends the monitor (main.rs 302,
\* 309, 311, 314, 346, 353, 356, 380)
Aborts(call, res) == FALSE

\* mutant of Acquirable: the lock is granted while another task holds it
AcquirableAlways(t) == TRUE

\* tokio::sync::Mutex: `lock().await` completes only when no task holds it
Acquirable(t) == lock = Free

\* `state.lock().await` of a monitor completes
MonLock(m) ==
  /\ mon[m].pc \in {"lock_fill", "lock_fill2"}
  /\ Acquirable(m)
  /\ lock' = m
  /\ mon' = [mon EXCEPT ![m].pc = IF @ = "lock_fill" THEN "cs_fill" ELSE "cs_fill2"]
  /\ UNCHANGED <<state, disk, cfg, ctl, nsig, nsync, next_oid, tracing, calls, book, log>>

\* what BotState::save can return: Err only on a file system that can fail
SaveResults(faulty) == IF faulty THEN CallResults ELSE {"Ok"}

\* BotState::save takes &self: on Ok the file holds the ledger, on Err
\* (create_dir_all or write failed) the file is as it was
Saved(st, res) == IF res = "Ok" THEN st ELSE disk

\* mutant of Unlock: the guard outlives the block
UnlockNever(t) == lock

\* the guard `st` goes out of scope at the end of the block that took it
Unlock(t) == IF lock = t THEN Free ELSE lock

\* under the lock: the ledger call, save, and the guard dropped at the end
\* of the block; then the rest of the arm
CommitFill(m, faulty) ==
  LET r == mon[m]
      phase == IF r.pc = "cs_fill" THEN 1 ELSE 2
      q == IF phase = 1 THEN CommitQty(r, r.info) ELSE ReportedFill(r, r.info)
      price == r.info.avg_fill_price
      evs == <<Ev(FillOp(r), "-", q, price, 0, phase), Ev("save", "-", 0, 0, 0, phase)>>
  IN
  /\ r.pc \in {"cs_fill", "cs_fill2"}
  /\ lock = m
  /\ state' = ApplyFill(state, r, q, price)
  /\ lock' = Unlock(m)
  /\ \E res \in SaveResults(faulty) :
       /\ disk' = Saved(state', res)
       /\ IF phase = 1 /\ ~Aborts("save", res)
          THEN AfterFill(m, r, evs) ELSE Return(m, evs)
  /\ UNCHANGED <<cfg, ctl, nsig, nsync, next_oid, tracing, calls, book>>

\* the monitor sends the follow-up market order and suspends in the call
IssuePlace(m, r, evs) ==
  /\ mon' = [mon EXCEPT ![m] = [r EXCEPT !.pc = "place"]]
  /\ log' = Record(m, evs \o <<Ev("place_market", "-", r.remaining, 0, 0, 1)>>)

\* cancel_order returns Ok or Err.  A buy monitor is done; a sell monitor
\* computes the remainder and converts it to a market order, the option
\* monitor resolving the contract again first.  log keeps what was returned.
CancelReturn(m) ==
  LET r == mon[m]
      remaining == Remaining(r.qty, ReportedFill(r, r.info))
      rest == [r EXCEPT !.remaining = remaining, !.info = NoInfo]
  IN
  /\ r.pc = "cancel"
  /\ \E res \in CallResults :
       LET ret == <<Ev("cancel_ret", res, 0, 0, r.order_id, 1)>> IN
       IF Aborts("cancel_order", res) \/ r.action = "BTO" \/ remaining = 0
       THEN Return(m, ret)
       ELSE IF r.kind = "Option"
       THEN /\ mon' = [mon EXCEPT ![m] = [rest EXCEPT !.pc = "find_contract"]]
            /\ log' = Record(m, ret)
       ELSE IssuePlace(m, rest, ret)
  /\ UNCHANGED <<state, disk, lock, cfg, ctl, nsig, nsync, next_oid, tracing, calls, book>>

\* find_option_contract returns in the option sell fallback; the result is
\* unwrapped, so Err panics the task
FindContractReturn(m) ==
  LET r == mon[m] IN
  /\ r.pc = "find_contract"
  /\ \/ IssuePlace(m, r, <<>>)
     \/ /\ mon' = [mon EXCEPT ![m] = PanickedMon]
        /\ log' = Record(m, <<Ev("panic", "-", 0, 0, 0, 1)>>)
  /\ UNCHANGED <<state, disk, lock, cfg, ctl, nsig, nsync, next_oid, tracing, calls, book>>

\* place_*_market returns: Ok(mid) starts the follow-up order's poll, Err
\* is logged and the monitor returns
PlaceReturn(m) ==
  LET r == mon[m] IN
  /\ r.pc = "place"
  /\ \/ /\ mon' = [mon EXCEPT ![m] = [r EXCEPT !.pc = "poll2", !.polls = 0,
                                                !.mid = next_oid]]
        /\ next_oid' = next_oid + 1
        /\ log' = Record(m, <<Ev("placed", "-", r.remaining, 0, next_oid, 1)>>)
     \/ /\ Return(m, <<Ev("place_err", "-", 0, 0, 0, 1)>>)
        /\ UNCHANGED next_oid
  /\ UNCHANGED <<state, disk, lock, cfg, ctl, nsig, nsync, tracing, calls, book>>

\* ------------------------------------------------------------------- risk
\* mutant of pre_check: an order at the cap is rejected too
pre_check_at_cap(max_position_value, signal, est_price, st) ==
  LET notional == IF signal.asset = "Stock"
                  THEN est_price * signal.quantity
                  ELSE est_price * signal.quantity * 100
      have == IF signal.asset = "Stock"
              THEN position_qty_stock(st, signal.symbol)
              ELSE position_qty_option(st, signal.symbol, signal.strike,
                                       signal.call_put, signal.expiry_mmdd)
  IN  /\ ~(notional >= max_position_value)
      /\ signal.action = "STC" => ~(have < signal.quantity)

\* RiskEngine::pre_check: TRUE for Ok(()), FALSE for either bail!
pre_check(max_position_value, signal, est_price, st) ==
  LET notional == IF signal.asset = "Stock"
                  THEN est_price * signal.quantity
                  ELSE est_price * signal.quantity * 100
      have == IF signal.asset = "Stock"
              THEN position_qty_stock(st, signal.symbol)
              ELSE position_qty_option(st, signal.symbol, signal.strike,
                                       signal.call_put, signal.expiry_mmdd)
  IN  /\ ~(notional > max_position_value)
      /\ signal.action = "STC" => ~(have < signal.quantity)

\* utils.rs: sanitize_symbol (trim is the identity on the symbols in use)
sanitize_symbol(sym) == to_ascii_uppercase(sym)

\* ----------------------------------------------------------- control loop
\* cfg.risk.max_position_value of the runs modelled
MaxPositionValue == 100

IdleCtl == [holdings |-> <<>>, pc |-> "select", est_price |-> 0, sig |-> NoSignal]

\* the loop is back at select!, its locals of the iteration dropped
Continue == ctl' = IdleCtl

\* a `break` where the source has `continue`: the loop is left
Break == ctl' = [IdleCtl EXCEPT !.pc = "stopped"]

\* the `continue` after a warning or an error: the signal in hand is dropped
\* (main.rs 107, 121, 152)
DropSignal == Continue

\* positions_simple returns, at startup (main.rs 56) or after a sync tick
\* (main.rs 243): Ok(holdings) goes on to take the lock, Err is logged
SyncReturn(Snaps) ==
  /\ ctl.pc \in {"init_positions", "sync_positions"}
  /\ \/ \E h \in Snaps :
          ctl' = [ctl EXCEPT !.holdings = h,
                             !.pc = IF @ = "init_positions" THEN "init_lock"
                                    ELSE "sync_lock"]
     \/ Continue
  /\ UNCHANGED <<state, disk, lock, cfg, mon, nsig, nsync, next_oid, tracing, calls, book, log>>

\* `state.lock().await` of the control loop completes
CtlLock ==
  /\ ctl.pc \in {"init_lock", "sync_lock", "risk_lock"}
  /\ Acquirable(MainTask)
  /\ lock' = MainTask
  /\ ctl' = [ctl EXCEPT !.pc = CASE @ = "init_lock" -> "init_cs"
                                 [] @ = "sync_lock" -> "sync_cs"
                                 [] @ = "risk_lock" -> "risk_cs"]
  /\ UNCHANGED <<state, disk, cfg, mon, nsig, nsync, next_oid, tracing, calls, book, log>>

\* under the lock: set_holdings, save (its Err ignored at startup, logged
\* after a tick), the guard dropped (main.rs 58-60, 245-248)
SyncCommit(faulty) ==
  /\ ctl.pc \in {"init_cs", "sync_cs"}
  /\ lock = MainTask
  /\ state' = set_holdings(state, ctl.holdings)
  /\ \E res \in SaveResults(faulty) : disk' = Saved(state', res)
  /\ lock' = Unlock(MainTask)
  /\ Continue
  /\ UNCHANGED <<cfg, mon, nsig, nsync, next_oid, tracing, calls, book, log>>

\* rx.recv() yields a signal; the loop looks the instrument up
Recv(Sigs) ==
  /\ ctl.pc = "select"
  /\ nsig < MaxSignals
  /\ \E sig \in Sigs : ctl' = [ctl EXCEPT !.pc = "find", !.sig = sig]
  /\ nsig' = nsig + 1
  /\ UNCHANGED <<state, disk, lock, cfg, mon, nsync, next_oid, tracing, calls, book, log>>

\* sync_ticker.tick() fires; the loop asks for the positions
Tick ==
  /\ ctl.pc = "select"
  /\ nsync < MaxSyncs
  /\ ctl' = [ctl EXCEPT !.pc = "sync_positions"]
  /\ nsync' = nsync + 1
  /\ UNCHANGED <<state, disk, lock, cfg, mon, nsig, next_oid, tracing, calls, book, log>>

\* find_stock_ticker_id / find_option_contract returns: Err drops the
\* signal; Ok takes the limit price as the estimate or asks for a quote
FindReturn ==
  /\ ctl.pc = "find"
  /\ \/ DropSignal
     \/ IF ctl.sig.order_type = "Limit" /\ ctl.sig.limit_price > 0
        THEN ctl' = [ctl EXCEPT !.pc = "risk_lock", !.est_price = ctl.sig.limit_price]
        ELSE ctl' = [ctl EXCEPT !.pc = "quote"]
  /\ UNCHANGED <<state, disk, lock, cfg, mon, nsig, nsync, next_oid, tracing, calls, book, log>>

\* WbCtx::mid_price: Ok with the mid or the close (0 when the quote has
\* none), or the Err of get_quotes
QuoteResults(P) ==
  {[ok |-> TRUE, v |-> px] : px \in 0..P} \cup {[ok |-> FALSE, v |-> 0]}

\* mutant of unwrap_or: an Err is taken for a price no cap admits
unwrap_or_beyond(res, default) == IF res.ok THEN res.v ELSE MaxPositionValue + 1

\* Result::unwrap_or
unwrap_or(res, default) == IF res.ok THEN res.v ELSE default

\* mid_price returns and `unwrap_or(0.0)` makes the estimate of it; what it
\* returned is recorded in calls when calls are traced
QuoteReturn(P) ==
  /\ ctl.pc = "quote"
  /\ \E res \in QuoteResults(P) :
       /\ ctl' = [ctl EXCEPT !.pc = "risk_lock", !.est_price = unwrap_or(res, 0)]
       /\ calls' = IF tracing = "off" THEN calls
                   ELSE <<[op |-> "mid_price", ret |-> res]>>
  /\ UNCHANGED <<state, disk, lock, cfg, mon, nsig, nsync, next_oid, tracing, log, book>>

\* under the lock: pre_check; the guard is dropped at the end of the block
\* on both paths.  A rejected signal and a dry run go back to select;
\* otherwise the order is sent.
RiskCheck ==
  /\ ctl.pc = "risk_cs"
  /\ lock = MainTask
  /\ lock' = Unlock(MainTask)
  /\ IF ~pre_check(cfg.max_position_value, ctl.sig, ctl.est_price, state)
     THEN DropSignal
     ELSE IF cfg.dry_run THEN Continue
     ELSE ctl' = [ctl EXCEPT !.pc = "place"]
  /\ UNCHANGED <<state, disk, cfg, mon, nsig, nsync, next_oid, tracing, calls, book, log>>

\* was_market of a sell monitor: is_market of an STC order, the configured
\* sell mode (main.rs 135, 203).  The buy monitors take no such argument.
WasMarket(sig) == sig.action = "STC" /\ cfg.sell_is_market

\* what log keeps of a spawned monitor's arguments
Spawned(r) ==
  [op |-> "spawn", kind |-> r.kind, action |-> r.action, qty |-> r.qty,
   was_market |-> r.was_market, oid |-> r.order_id]

\* the main task has not panicked: a panic unwinds it and the process is over
Running == ctl.pc # "panicked"

\* place_*_{market,limit} returns: Err drops the signal, Ok(order_id) calls
\* tokio::task::spawn_local on the monitor of the order and the loop goes back
\* to select. main runs on #[tokio::main(flavor = "current_thread")] and
\* enters no LocalSet; the tokio the build links is not part of the source,
\* so spawn_local either spawns the monitor or panics the main task
CtlPlaceReturn ==
  LET sig == ctl.sig
      r == SpawnedMon(sig.asset, sig.action, sanitize_symbol(sig.symbol),
                      sig.strike, sig.call_put, sig.expiry_mmdd, sig.quantity,
                      WasMarket(sig), next_oid)
  IN
  /\ ctl.pc = "place"
  /\ \/ /\ UNCHANGED <<mon, next_oid, log>>
        /\ DropSignal
     \/ /\ mon' = [mon EXCEPT ![nsig] = r]
        /\ next_oid' = next_oid + 1
        /\ log' = Record(nsig, <<Spawned(r)>>)
        /\ Continue
     \/ /\ next_oid' = next_oid + 1
        /\ ctl' = [IdleCtl EXCEPT !.pc = "panicked"]
        /\ UNCHANGED <<mon, log>>
  /\ UNCHANGED <<state, disk, lock, cfg, nsig, nsync, tracing, calls, book>>

\* ------------------------------------------------------- specifications
\* AppConfig as loaded: dry_run, the sell mode and the notional cap.  The
\* buy mode, tif and the slippage only shape the order sent to the brokerage.
Configs ==
  [dry_run : BOOLEAN, sell_is_market : BOOLEAN,
   max_position_value : {MaxPositionValue}]

\* The whole program from startup: BotState::load found no file, the
\* control loop is suspended in the initial positions_simple.
Init ==
  /\ state = EmptyState
  /\ disk = EmptyState
  /\ lock = Free
  /\ cfg \in Configs
  /\ ctl = [IdleCtl EXCEPT !.pc = "init_positions"]
  /\ mon = [m \in Monitors |-> IdleMon]
  /\ nsig = 0
  /\ nsync = 0
  /\ next_oid = 1
  /\ tracing = "off"
  /\ log = [m \in Monitors |-> <<>>]
  /\ calls = <<>>
  /\ book = <<>>

MonitorStep(m, Infos, faulty) ==
  \/ PollReturn(m, Infos)
  \/ SleepReturn(m)
  \/ MonLock(m)
  \/ CommitFill(m, faulty)
  \/ CancelReturn(m)
  \/ FindContractReturn(m)
  \/ PlaceReturn(m)

SyncStep(Snaps, faulty) ==
  \/ Tick
  \/ SyncReturn(Snaps)
  \/ CtlLock
  \/ SyncCommit(faulty)

\* the program with orders of one share or contract at one price, on a file
\* system that does not fail
Next ==
  \/ \E m \in Monitors : Running /\ MonitorStep(m, OrderInfos(1, 1), FALSE)
  \/ SyncStep(Snapshots(1), FALSE)
  \/ Recv(Signals(1, MaxPrice))
  \/ FindReturn
  \/ QuoteReturn(MaxPrice)
  \/ RiskCheck
  \/ CtlPlaceReturn

Spec == Init /\ [][Next]_vars

\* an order as the brokerage books it when place_* is answered: nothing of
\* it is filled yet and it is working
Booked(qty) == [qty |-> qty, filled |-> 0, open |-> TRUE]

\* One monitor in full: the order of any signal has just been placed and its
\* monitor spawned; the control loop stays at select.  The brokerage reports
\* every quantity up to MaxQty and every price up to MaxPrice, saves can
\* fail, and every call of the monitor is recorded in log.
MonitorSpawned(level, syncs) ==
  /\ \E h \in Snapshots(MaxQty) \cup
              {<<OptionHolding("AAPL", Strike, "C", SignalExpiry, MaxQty, RInt(1))>>} :
        /\ state = [holdings |-> h, daily_pl |-> <<>>]
        /\ disk = state
  /\ lock = Free
  /\ cfg \in {c \in Configs : ~c.dry_run}
  /\ ctl = IdleCtl
  /\ \E sig \in Signals(MaxQty, 1) :
       LET r == SpawnedMon(sig.asset, sig.action, sanitize_symbol(sig.symbol),
                           sig.strike, sig.call_put, sig.expiry_mmdd,
                           sig.quantity, WasMarket(sig), 1)
       IN  /\ sig.order_type = "Market"
           /\ mon = [m \in Monitors |-> IF m = 1 THEN r ELSE IdleMon]
           /\ log = [m \in Monitors |-> IF m = 1 THEN <<Spawned(r)>> ELSE <<>>]
           /\ book = <<Booked(r.qty)>>
  /\ nsig = MaxSignals
  /\ nsync = syncs
  /\ next_oid = 2
  /\ tracing = level
  /\ calls = <<>>

InitMonitor == MonitorSpawned("calls", MaxSyncs)

NextMonitor == MonitorStep(1, OrderInfos(MaxQty, MaxPrice), TRUE)

SpecMonitor == InitMonitor /\ [][NextMonitor]_vars

\* the same monitor, its status queries recorded one by one
SpecPoll == MonitorSpawned("queries", MaxSyncs) /\ [][NextMonitor]_vars

\* the same monitor next to the periodic resync, nothing recorded: the
\* brokerage lists positions of MaxQty, and every save can fail
NextSave ==
  \/ NextMonitor
  \/ SyncStep(Snapshots(MaxQty), TRUE)

SpecSave == MonitorSpawned("off", 0) /\ [][NextSave]_vars

\* The same with the scheduling the runtime and the environment give: the
\* current_thread runtime polls every task that can run, the brokerage
\* answers every call and every sleep ends, so a monitor that can take a
\* step takes one; and the control loop, once positions_simple is called,
\* gets its answer, the lock (tokio's Mutex serves its waiters in turn) and
\* the end of its block.  Nothing obliges the ticker to fire.
SpecLive ==
  /\ SpecSave
  /\ WF_vars(NextMonitor)
  /\ WF_vars(SyncReturn(Snapshots(MaxQty)) \/ CtlLock \/ SyncCommit(TRUE))

\* ------------------------------------------------------------ brokerage
\* The brokerage's side of a sell monitor's calls.  It fills a working order
\* share by share and never beyond the order's quantity; it closes the
\* original order when the cancel reaches it, and books the follow-up order
\* when the placement reaches it, each at some moment of the call.
BrokerFill ==
  \E i \in DOMAIN book :
    /\ book[i].open
    /\ book[i].filled < book[i].qty
    /\ book' = [book EXCEPT ![i].filled = @ + 1,
                            ![i].open = book[i].filled + 1 < book[i].qty]

BrokerCancel ==
  /\ mon[1].pc = "cancel"
  /\ book[1].open
  /\ book' = [book EXCEPT ![1].open = FALSE]

BrokerPlace ==
  /\ mon[1].pc = "place"
  /\ Len(book) = 1
  /\ book' = Append(book, Booked(mon[1].remaining))

Brokerage ==
  /\ BrokerFill \/ BrokerCancel \/ BrokerPlace
  /\ UNCHANGED <<state, disk, lock, cfg, ctl, mon, nsig, nsync, next_oid, tracing,
                 log, calls>>

\* what get_order_info returns of a booked order: its filled quantity as it
\* is at the answer, and the status that goes with it
Reports(o) ==
  {info \in OrderInfos(MaxQty, 1) :
     /\ info.filled_qty = o.filled
     /\ info.status = IF o.filled = o.qty THEN "Filled"
                      ELSE IF ~o.open THEN "Canceled"
                      ELSE IF o.filled > 0 THEN "PartiallyFilled"
                      ELSE "Working"}

\* the order a status query of the monitor is about (main.rs 331, 371)
Polled == IF mon[1].pc = "poll2" /\ Len(book) > 1 THEN book[2] ELSE book[1]

\* the answers agree with the book: cancel_order is answered Ok only once
\* the order is closed, place_*_market only once the order is booked
Answered ==
  /\ mon[1].pc = "cancel" /\ mon'[1].pc # "cancel" /\ book[1].open
       => \E i \in DOMAIN log'[1] :
            log'[1][i].op = "cancel_ret" /\ log'[1][i].status = "Err"
  /\ mon[1].pc = "place" /\ mon'[1].pc = "poll2" => Len(book) = 2

\* A sell monitor and the brokerage: a limit sell of any quantity has been
\* placed, the brokerage fills, closes and books orders at its own pace and
\* reports them as they are.
InitBroker ==
  /\ MonitorSpawned("calls", 0)
  /\ mon[1].action = "STC"
  /\ ~mon[1].was_market

NextBroker ==
  \/ MonitorStep(1, Reports(Polled), FALSE) /\ Answered
  \/ Brokerage

SpecBroker == InitBroker /\ [][NextBroker]_vars

\* positions_simple of an account whose only trades are the fills of the
\* monitor's buy order: the shares filled so far, none listed when none is
Listed ==
  IF book[1].filled = 0 THEN <<>>
  ELSE <<StockHolding("AAPL", book[1].filled, RInt(1))>>

\* A stock buy monitor, the brokerage and the periodic resync: the account
\* and the ledger are empty when the order is placed, and every snapshot is
\* the account as it is when positions_simple is answered.
InitResync ==
  /\ MonitorSpawned("calls", 0)
  /\ mon[1].kind = "Stock"
  /\ mon[1].action = "BTO"
  /\ state.holdings = <<>>

NextResync ==
  \/ MonitorStep(1, Reports(Polled), FALSE) /\ Answered
  \/ Brokerage
  \/ SyncStep({Listed}, FALSE)

SpecResync == InitResync /\ [][NextResync]_vars

\* Two buy orders for one instrument (a stock, or an option contract) have
\* been placed on an empty ledger, for 1 and for MaxQty, and their monitors
\* spawned; the control loop stays at select.  The brokerage reports every
\* quantity and price, and the monitors' calls are recorded in log.
InitBuys ==
  /\ state = EmptyState
  /\ disk = EmptyState
  /\ lock = Free
  /\ cfg \in {c \in Configs : ~c.dry_run /\ ~c.sell_is_market}
  /\ ctl = IdleCtl
  /\ \E kind \in {"Stock", "Option"} :
       LET Buy(q, oid) ==
             SpawnedMon(kind, "BTO", sanitize_symbol("AAPL"),
                        IF kind = "Option" THEN Strike ELSE 0,
                        IF kind = "Option" THEN "C" ELSE "-",
                        IF kind = "Option" THEN SignalExpiry ELSE "-",
                        q, FALSE, oid)
           Mon(m) == CASE m = 1 -> Buy(1, 1)
                       [] m = 2 -> Buy(MaxQty, 2)
                       [] OTHER -> IdleMon
       IN  /\ mon = [m \in Monitors |-> Mon(m)]
           /\ log = [m \in Monitors |->
                       IF m \in {1, 2} THEN <<Spawned(Mon(m))>> ELSE <<>>]
  /\ nsig = MaxSignals
  /\ nsync = MaxSyncs
  /\ next_oid = 3
  /\ tracing = "calls"
  /\ calls = <<>>
  /\ book = <<>>

\* the steps of monitor_buy_stock_and_update / monitor_buy_option_and_update
BuyMonitorStep(m, Infos, faulty) ==
  \/ PollReturn(m, Infos)
  \/ SleepReturn(m)
  \/ MonLock(m)
  \/ CommitFill(m, faulty)
  \/ CancelReturn(m)

NextBuys == \E m \in Monitors : BuyMonitorStep(m, OrderInfos(MaxQty, MaxPrice), FALSE)

SpecBuys == InitBuys /\ [][NextBuys]_vars

\* ------------------------------------------------------ the ledger alone
MaxCalls == 2     \* ledger calls made in one behaviour of SpecLedger

\* a position as get_positions lists it: a stock position carries
\* ticker.symbol, an option position the underlying, strike, side and
\* expiration date ("-" / 0: the key is absent)
RawStock(sym, q) ==
  [ticker |-> sym, underlying |-> "-", strike |-> 0, callOrPut |-> "-",
   expireDate |-> "-", position |-> q, cost |-> 1]

RawOption(sym, k, cp, exp, q) ==
  [ticker |-> "-", underlying |-> sym, strike |-> k, callOrPut |-> cp,
   expireDate |-> exp, position |-> q, cost |-> 1]

\* utils.rs: last4_digits over the dates in use: the last four of the
\* string's digits, "None" when it has fewer than four
last4_digits(s) ==
  CASE s = "2025-08-16" -> "0816"
    [] s = "2026-08-16" -> "0816"
    [] s = "2025-09-20" -> "0920"
    [] OTHER -> "None"

\* positions_simple: one Holding per listed position, in the listed order;
\* an option position lacking a key is skipped
positions_simple(raw) ==
  LET Kept(it) == \/ it.ticker # "-"
                  \/ it.underlying # "-" /\ it.callOrPut # "-" /\ it.expireDate # "-"
      Conv(it) ==
        IF it.ticker # "-"
        THEN StockHolding(it.ticker, it.position, RInt(it.cost))
        ELSE OptionHolding(it.underlying, it.strike,
                           to_ascii_uppercase(it.callOrPut),
                           IF last4_digits(it.expireDate) = "None" THEN "0000"
                           ELSE last4_digits(it.expireDate),
                           it.position, RInt(it.cost))
      kept == SelectSeq(raw, Kept)
  IN  [i \in 1..Len(kept) |-> Conv(kept[i])]

\* the positions of an account: a stock, and options of the same series
\* expiring in two different years or in another month
RawPositions(Qs) ==
  {RawStock("AAPL", q) : q \in Qs} \cup
  {RawOption("AAPL", Strike, "C", e, q) :
     e \in {"2025-08-16", "2026-08-16", "2025-09-20"}, q \in Qs}

\* get_positions results: up to two positions of distinct instruments
RawLists(Qs) ==
  LET R == RawPositions(Qs)
      Instrument(it) == <<it.ticker, it.underlying, it.expireDate>>
  IN  {<<>>} \cup {<<a>> : a \in R} \cup
      {p \in R \X R : Instrument(p[1]) # Instrument(p[2])}

\* a call on the ledger: its name and arguments (those it does not take are
\* "-" / 0 / <<>>), the ledger before and after it, and the value returned
LedgerCall(op, symbol, strike, cp, expiry, qty, price, new, before, after, ret) ==
  [op |-> op, symbol |-> symbol, strike |-> strike, cp |-> cp,
   expiry |-> expiry, qty |-> qty, price |-> price, new |-> new,
   before |-> before, after |-> after, ret |-> ret]

\* the call is made on the ledger and recorded
Call(c) ==
  /\ Len(calls) < MaxCalls
  /\ state' = c.after
  /\ calls' = Append(calls, c)
  /\ UNCHANGED <<disk, lock, cfg, ctl, mon, nsig, nsync, next_oid, tracing, log, book>>

UpsertStock ==
  \E q \in 1..MaxQty, p \in 1..MaxPrice :
    Call(LedgerCall("upsert_stock", "AAPL", 0, "-", "-", q, p, <<>>, state,
                    upsert_stock_buy_with_cost(state, "AAPL", q, p), RInt(0)))

UpsertOption ==
  \E q \in 1..MaxQty, p \in 1..MaxPrice :
    Call(LedgerCall("upsert_option", "AAPL", Strike, "C", SignalExpiry, q, p,
                    <<>>, state,
                    upsert_option_buy_with_cost(state, "AAPL", Strike, "C",
                                                SignalExpiry, q, p),
                    RInt(0)))

RealizeStock ==
  \E q \in 1..MaxQty, p \in 1..MaxPrice :
    Call(LedgerCall("realize_stock", "AAPL", 0, "-", "-", q, p, <<>>, state,
                    realize_stock_sell(state, "AAPL", q, p, Today),
                    RealizedPl(state, FirstIdx(StockIdx(state.holdings, "AAPL")),
                               q, p, 1)))

RealizeOption ==
  \E q \in 1..MaxQty, p \in 1..MaxPrice :
    Call(LedgerCall("realize_option", "AAPL", Strike, "C", SignalExpiry, q, p,
                    <<>>, state,
                    realize_option_sell(state, "AAPL", Strike, "C",
                                        SignalExpiry, q, p, Today),
                    RealizedPl(state,
                               FirstIdx(OptionIdx(state.holdings, "AAPL", Strike,
                                                  "C", SignalExpiry)),
                               q, p, 100)))

\* a resync: set_holdings with what positions_simple made of the listing
SetHoldings ==
  \E raw \in RawLists({MaxQty}) :
    LET new == positions_simple(raw) IN
    Call(LedgerCall("set_holdings", "-", 0, "-", "-", 0, 0, new, state,
                    set_holdings(state, new), RInt(0)))

\* the ledger as BotState::load or the startup sync left it: empty, or one
\* position of MaxQty
InitLedger ==
  /\ \E raw \in {r \in RawLists({MaxQty}) : Len(r) <= 1} :
       state = [holdings |-> positions_simple(raw), daily_pl |-> <<>>]
  /\ disk = state
  /\ lock = Free
  /\ cfg \in {c \in Configs : ~c.dry_run /\ ~c.sell_is_market}
  /\ ctl = IdleCtl
  /\ mon = [m \in Monitors |-> IdleMon]
  /\ nsig = 0
  /\ nsync = 0
  /\ next_oid = 1
  /\ tracing = "off"
  /\ log = [m \in Monitors |-> <<>>]
  /\ calls = <<>>
  /\ book = <<>>

NextLedger ==
  \/ UpsertStock
  \/ UpsertOption
  \/ RealizeStock
  \/ RealizeOption
  \/ SetHoldings

SpecLedger == InitLedger /\ [][NextLedger]_vars

\* ------------------------------------------------- the risk engine alone
\* the caps RiskEngine::new is given: the least one that is not negative,
\* one that stock orders can exceed, and the one of the runs modelled
Caps == {0, MaxQty, MaxPositionValue}

\* the ledgers a risk check can meet: the positions of a resync, and on top
\* of them the contracts bought since under the signal's expiry
RiskLedgers ==
  {[holdings |-> IF q = 0 THEN positions_simple(raw)
                 ELSE upsert_option_buy_with_cost(
                        [holdings |-> positions_simple(raw), daily_pl |-> <<>>],
                        "AAPL", Strike, "C", SignalExpiry, q, 1).holdings,
    daily_pl |-> <<>>] :
     raw \in RawLists(1..MaxQty), q \in 0..MaxQty}

InitRisk ==
  /\ state \in RiskLedgers
  /\ disk = state
  /\ lock = Free
  /\ cfg \in {c \in Configs : ~c.dry_run /\ ~c.sell_is_market}
  /\ ctl = IdleCtl
  /\ mon = [m \in Monitors |-> IdleMon]
  /\ nsig = 0
  /\ nsync = 0
  /\ next_oid = 1
  /\ tracing = "off"
  /\ log = [m \in Monitors |-> <<>>]
  /\ calls = <<>>
  /\ book = <<>>

\* risk.pre_check(&signal, est_price, &st): the signal, the estimate (the
\* limit price or the quote, 0 when there is none) and the verdict are
\* recorded
PreCheck ==
  \E sig \in {x \in Signals(MaxQty, 1) : x.order_type = "Market"},
     est_price \in 0..MaxPrice, cap \in Caps :
    /\ calls' = <<[op |-> "pre_check", signal |-> sig, est_price |-> est_price,
                   max_position_value |-> cap,
                   ok |-> pre_check(cap, sig, est_price, state)]>>
    /\ UNCHANGED <<state, disk, lock, cfg, ctl, mon, nsig, nsync, next_oid,
                   tracing, log, book>>

NextRisk == PreCheck

SpecRisk == InitRisk /\ [][NextRisk]_vars

\* ------------------------------------------------- one signal, start to end
\* The control loop takes one signal of any kind, quantity and price from
\* the channel and carries it to the submission of its order, under every
\* cap, in a dry run or not, over the ledgers a risk check can meet; the
\* monitor it spawns does not run.  What mid_price returned is recorded.
InitSignal ==
  /\ state \in RiskLedgers
  /\ disk = state
  /\ lock = Free
  /\ cfg \in {[c EXCEPT !.max_position_value = cap] :
               c \in {x \in Configs : ~x.sell_is_market}, cap \in Caps}
  /\ ctl = IdleCtl
  /\ mon = [m \in Monitors |-> IdleMon]
  /\ nsig = MaxSignals - 1
  /\ nsync = MaxSyncs
  /\ next_oid = 1
  /\ tracing = "calls"
  /\ log = [m \in Monitors |-> <<>>]
  /\ calls = <<>>
  /\ book = <<>>

NextSignal ==
  \/ Recv(Signals(MaxQty, MaxPrice))
  \/ FindReturn
  \/ QuoteReturn(MaxPrice)
  \/ CtlLock
  \/ RiskCheck
  \/ CtlPlaceReturn

SpecSignal == InitSignal /\ [][NextSignal]_vars

\* ------------------------------------------------------- the signal parser
\* parser.rs.  A text is a sequence of characters.  A regular expression is
\* a tree of character sets, concatenations, alternatives and repetitions;
\* the four patterns of parse_signal are anchored at both ends, and no two
\* adjacent parts of them share a character, so a text has at most one match
\* and the capture groups are the groups of that match.
Letters ==
  {"A", "B", "C", "D", "L", "M", "N", "O", "P", "S", "T", "V", "X",
   "a", "b", "c", "d", "l", "m", "n", "o", "p", "s", "t", "v", "x"}
Digits == {"0", "1", "2", "3", "4", "5", "6", "7", "8", "9"}

\* char::to_ascii_uppercase / to_ascii_lowercase on the letters above
upper(c) ==
  CASE c = "a" -> "A" [] c = "b" -> "B" [] c = "c" -> "C" [] c = "d" -> "D"
    [] c = "l" -> "L" [] c = "m" -> "M" [] c = "n" -> "N" [] c = "o" -> "O"
    [] c = "p" -> "P" [] c = "s" -> "S" [] c = "t" -> "T" [] c = "v" -> "V"
    [] c = "x" -> "X" [] OTHER -> c

lower(c) ==
  CASE c = "A" -> "a" [] c = "B" -> "b" [] c = "C" -> "c" [] c = "D" -> "d"
    [] c = "L" -> "l" [] c = "M" -> "m" [] c = "N" -> "n" [] c = "O" -> "o"
    [] c = "P" -> "p" [] c = "S" -> "s" [] c = "T" -> "t" [] c = "V" -> "v"
    [] c = "X" -> "x" [] OTHER -> c

\* str::to_uppercase / to_ascii_lowercase
to_uppercase(s) == [i \in 1..Len(s) |-> upper(s[i])]
to_ascii_lowercase(s) == [i \in 1..Len(s) |-> lower(s[i])]

\* str::trim on the one whitespace character of the texts
RECURSIVE trim(_)
trim(s) ==
  IF s # <<>> /\ Head(s) = " " THEN trim(Tail(s))
  ELSE IF s # <<>> /\ s[Len(s)] = " " THEN trim(SubSeq(s, 1, Len(s) - 1))
  ELSE s

\* the regular expressions; a repetition with hi < lo has no upper limit
Chr(S) == [k |-> "set", s |-> S]
Cat(items) == [k |-> "cat", items |-> items]
Alt(items) == [k |-> "alt", items |-> items]
Rep(re, lo, hi) == [k |-> "rep", re |-> re, lo |-> lo, hi |-> hi]

\* Ends(re, t, i): the positions a match of re that starts at t[i] can end
\* before
RECURSIVE Ends(_, _, _)
RECURSIVE CatEnds(_, _, _, _)
RECURSIVE RepEnds(_, _, _, _)
Ends(re, t, i) ==
  CASE re.k = "set" -> IF i <= Len(t) /\ t[i] \in re.s THEN {i + 1} ELSE {}
    [] re.k = "cat" -> CatEnds(re.items, t, {i}, 1)
    [] re.k = "alt" -> UNION {Ends(re.items[n], t, i) : n \in 1..Len(re.items)}
    [] re.k = "rep" -> RepEnds(re, t, {i}, 0)

CatEnds(items, t, S, n) ==
  IF n > Len(items) THEN S
  ELSE CatEnds(items, t, UNION {Ends(items[n], t, j) : j \in S}, n + 1)

RepEnds(re, t, S, n) ==
  (IF n >= re.lo THEN S ELSE {}) \cup
  (IF S = {} \/ (re.hi >= re.lo /\ n >= re.hi) THEN {}
   ELSE RepEnds(re, t, UNION {Ends(re.re, t, j) : j \in S}, n + 1))

\* the ways the parts of an anchored pattern divide the whole of t: the
\* position each part ends before
RECURSIVE Spans(_, _, _, _)
Spans(parts, t, n, i) ==
  IF n > Len(parts) THEN (IF i = Len(t) + 1 THEN {<<>>} ELSE {})
  ELSE UNION {{<<j>> \o rest : rest \in Spans(parts, t, n + 1, j)} :
                j \in Ends(parts[n], t, i)}

\* Regex::captures: <<>> for None, else <<c>> with c[g] the text of group g
captures(re, t) ==
  LET all == Spans(re.parts, t, 1, 1)
      e == CHOOSE x \in all : TRUE
      from(n) == IF n = 1 THEN 1 ELSE e[n - 1]
  IN  IF all = {} THEN <<>>
      ELSE <<[g \in 1..Len(re.groups) |->
                SubSeq(t, from(re.groups[g]), e[re.groups[g]] - 1)]>>

\* the parts the four patterns are made of, letters under the flag (?i)
Part ==
  LET L(c) == Chr({upper(c), lower(c)})
      D == Chr(Digits)
  IN
  [action |-> Alt(<<Cat(<<L("B"), L("T"), L("O")>>),
                    Cat(<<L("S"), L("T"), L("C")>>)>>),
   spaces1 |-> Rep(Chr({" "}), 1, 0),
   spaces0 |-> Rep(Chr({" "}), 0, -1),
   qty |-> Rep(D, 1, 0),
   symbol |-> Rep(Chr(Letters), 1, 6),
   strike |-> Cat(<<Rep(D, 1, 0),
                    Rep(Cat(<<Chr({"."}), Rep(D, 1, 0)>>), 0, 1)>>),
   call_put |-> Chr({"C", "P", "c", "p"}),
   expiry |-> Cat(<<Rep(D, 2, 2), Chr({"/"}), Rep(D, 2, 2)>>),
   at |-> Chr({"@"}),
   price |-> Alt(<<Chr({"m", "M"}), Rep(Chr(Digits \cup {"."}), 1, 0)>>)]

\* parser.rs 12, 14, 78, 79
re_opt ==
  [parts |-> <<Part.action, Part.spaces1, Part.qty, Part.spaces1, Part.symbol, Part.spaces1,
               Part.strike, Part.spaces0, Part.call_put, Part.spaces1, Part.expiry, Part.spaces0,
               Part.at, Part.spaces0, Part.price>>,
   groups |-> <<1, 3, 5, 7, 9, 11, 15>>]

re_opt_noqty ==
  [parts |-> <<Part.action, Part.spaces1, Part.symbol, Part.spaces1, Part.strike, Part.spaces0,
               Part.call_put, Part.spaces1, Part.expiry, Part.spaces0, Part.at, Part.spaces0,
               Part.price>>,
   groups |-> <<1, 3, 5, 7, 9, 13>>]

re_stk ==
  [parts |-> <<Part.action, Part.spaces1, Part.qty, Part.spaces1, Part.symbol, Part.spaces0,
               Part.at, Part.spaces0, Part.price>>,
   groups |-> <<1, 3, 5, 9>>]

re_stk_noqty ==
  [parts |-> <<Part.action, Part.spaces1, Part.symbol, Part.spaces0, Part.at, Part.spaces0,
               Part.price>>,
   groups |-> <<1, 3, 7>>]

DigitVal(c) ==
  CASE c = "0" -> 0 [] c = "1" -> 1 [] c = "2" -> 2 [] c = "3" -> 3
    [] c = "4" -> 4 [] c = "5" -> 5 [] c = "6" -> 6 [] c = "7" -> 7
    [] c = "8" -> 8 [] c = "9" -> 9

RECURSIVE DecimalVal(_)
DecimalVal(s) ==
  IF s = <<>> THEN 0
  ELSE 10 * DecimalVal(SubSeq(s, 1, Len(s) - 1)) + DigitVal(s[Len(s)])

RECURSIVE Pow10(_)
Pow10(n) == IF n = 0 THEN 1 ELSE 10 * Pow10(n - 1)

RECURSIVE StripZeros(_)
StripZeros(s) ==
  IF Len(s) > 1 /\ Head(s) = "0" THEN StripZeros(Tail(s)) ELSE s

\* a <= b for two runs of digits of one length
RECURSIVE DigitsLeq(_, _)
DigitsLeq(a, b) ==
  IF a = <<>> THEN TRUE
  ELSE IF DigitVal(Head(a)) # DigitVal(Head(b))
       THEN DigitVal(Head(a)) < DigitVal(Head(b))
       ELSE DigitsLeq(Tail(a), Tail(b))

\* the digits of u32::MAX
FitsU32(s) ==
  LET max == <<"4", "2", "9", "4", "9", "6", "7", "2", "9", "5">>
      d == StripZeros(s)
  IN  \/ Len(d) < Len(max)
      \/ Len(d) = Len(max) /\ DigitsLeq(d, max)

\* str::parse::<u32> of a run of digits: <<>> for Err (the value does not fit
\* 32 bits), else <<value>>
parse_u32(s) == IF FitsU32(s) THEN <<DecimalVal(s)>> ELSE <<>>

\* str::parse::<f64> of a run of digits and dots: Err unless there is a digit
\* and at most one dot; the value is kept exact
parse_f64(s) ==
  LET dots == {i \in 1..Len(s) : s[i] = "."}
      dot == CHOOSE i \in dots : TRUE
      digits == IF dots = {} THEN s
                ELSE SubSeq(s, 1, dot - 1) \o SubSeq(s, dot + 1, Len(s))
      decimals == IF dots = {} THEN 0 ELSE Len(s) - dot
  IN  IF Cardinality(dots) > 1 \/ Len(s) - Cardinality(dots) = 0 THEN <<>>
      ELSE <<Rat(DecimalVal(digits), Pow10(decimals))>>

\* the match on the uppercased action (parser.rs 17-21)
ParsedAction(s) == IF to_uppercase(s) = <<"B", "T", "O">> THEN "BTO" ELSE "STC"

\* the order type and limit price of the price group (parser.rs 29-33):
\* <<>> where `?` returns None from parse_signal
ParsedPrice(s) ==
  LET price_raw == to_ascii_lowercase(s)
  IN  IF price_raw = <<"m">>
      THEN <<[order_type |-> "Market", limit_price |-> <<>>]>>
      ELSE IF parse_f64(price_raw) = <<>> THEN <<>>
      ELSE <<[order_type |-> "Limit", limit_price |-> parse_f64(price_raw)]>>

\* types.rs: StockSignal / OptionSignal
ParsedSignal(asset, action, symbol, strike, cp, expiry, qty, px) ==
  [asset |-> asset, action |-> action, symbol |-> symbol,
   strike |-> strike, call_put |-> cp, expiry_mmdd |-> expiry,
   quantity |-> qty, order_type |-> px.order_type,
   limit_price |-> px.limit_price]

\* parse_signal(text): <<>> for None, else <<signal>>
parse_signal(text) ==
  LET t == trim(text)
      o == captures(re_opt, t)
      on == captures(re_opt_noqty, t)
      s == captures(re_stk, t)
      sn == captures(re_stk_noqty, t)
  IN
  IF o # <<>> THEN
    LET c == o[1] IN
    IF parse_u32(c[2]) = <<>> \/ ParsedPrice(c[7]) = <<>> THEN <<>>
    ELSE <<ParsedSignal("Option", ParsedAction(c[1]), to_uppercase(c[3]),
                        parse_f64(c[4])[1], upper(c[5][1]), c[6],
                        parse_u32(c[2])[1], ParsedPrice(c[7])[1])>>
  ELSE IF on # <<>> THEN
    LET c == on[1] IN
    IF ParsedPrice(c[6]) = <<>> THEN <<>>
    ELSE <<ParsedSignal("Option", ParsedAction(c[1]), to_uppercase(c[2]),
                        parse_f64(c[3])[1], upper(c[4][1]), c[5],
                        1, ParsedPrice(c[6])[1])>>
  ELSE IF s # <<>> THEN
    LET c == s[1] IN
    IF parse_u32(c[2]) = <<>> \/ ParsedPrice(c[4]) = <<>> THEN <<>>
    ELSE <<ParsedSignal("Stock", ParsedAction(c[1]), to_uppercase(c[3]),
                         <<>>, "-", <<>>,
                         parse_u32(c[2])[1], ParsedPrice(c[4])[1])>>
  ELSE IF sn # <<>> THEN
    LET c == sn[1] IN
    IF ParsedPrice(c[3]) = <<>> THEN <<>>
    ELSE <<ParsedSignal("Stock", ParsedAction(c[1]), to_uppercase(c[2]),
                         <<>>, "-", <<>>,
                         1, ParsedPrice(c[3])[1])>>
  ELSE <<>>

\* the texts parsed: an action, a quantity or none, a symbol, an option
\* series or none, blanks before and after the '@', a price, and blanks
\* around the whole
MaxBlanks == 1
Blanks(n) == [i \in 1..n |-> " "]
Written ==
  [action : {<<"B", "T", "O">>, <<"s", "t", "c">>},
   quantity : {<<>>, <<"0">>, <<"2">>, <<"1", "0">>,
               <<"4", "2", "9", "4", "9", "6", "7", "2", "9", "6">>},
   symbol : {<<"A", "A", "P", "L">>, <<"a", "a", "p", "l">>,
             <<"n", "v", "d", "a">>,
             <<"A", "B", "C", "D", "L", "M", "N">>},
   series : {<<>>, <<"1", "5", "0", "C", " ", "0", "8", "/", "1", "6">>,
             <<"2", ".", "5", " ", "p", " ", "0", "9", "/", "2", "0">>},
   before_at : 0..MaxBlanks, after_at : 0..MaxBlanks,
   price : {<<"m">>, <<"M">>, <<"2", ".", "5", "0">>, <<".">>, <<"x">>},
   around : 0..1]

Text(w) ==
  Blanks(w.around) \o w.action \o
  (IF w.quantity = <<>> THEN <<>> ELSE <<" ">> \o w.quantity) \o
  <<" ">> \o w.symbol \o
  (IF w.series = <<>> THEN <<>> ELSE <<" ">> \o w.series) \o
  Blanks(w.before_at) \o <<"@">> \o Blanks(w.after_at) \o w.price \o
  Blanks(w.around)

\* no call made yet
InitCall ==
  /\ state = EmptyState
  /\ disk = EmptyState
  /\ lock = Free
  /\ cfg \in {c \in Configs : ~c.dry_run /\ ~c.sell_is_market}
  /\ ctl = IdleCtl
  /\ mon = [m \in Monitors |-> IdleMon]
  /\ nsig = 0
  /\ nsync = 0
  /\ next_oid = 1
  /\ tracing = "off"
  /\ log = [m \in Monitors |-> <<>>]
  /\ calls = <<>>
  /\ book = <<>>

\* parse_signal(&text) on a message of the channel (discord.rs): the text,
\* what it was written from and the result are recorded
ParseSignal ==
  \E w \in Written :
    /\ calls = <<>>
    /\ calls' = <<[op |-> "parse_signal", written |-> w, text |-> Text(w),
                   ret |-> parse_signal(Text(w))]>>
    /\ UNCHANGED <<state, disk, lock, cfg, ctl, mon, nsig, nsync, next_oid,
                   tracing, log, book>>

SpecParser == InitCall /\ [][ParseSignal]_vars

\* ------------------------------------------------------ the state file
\* state.rs 18-36.  A JSON document is a tree of tagged values; a text that
\* is not JSON at all is the value NotJson.
J(t, v) == [t |-> t, v |-> v]
JNum(v) == J("num", v)
NotJson == J("bad", <<>>)

\* Serialize of Holding (an externally tagged enum) and PlEntry
HoldingJson(h) ==
  IF h.kind = "Stock"
  THEN J("obj", [Stock |->
         J("obj", [symbol |-> J("str", h.symbol), quantity |-> JNum(RInt(h.quantity)),
               avg_cost |-> JNum(h.avg_cost)])])
  ELSE J("obj", [Option |->
         J("obj", [symbol |-> J("str", h.symbol), strike |-> JNum(RInt(h.strike)),
               call_put |-> J("str", h.call_put),
               expiry_mmdd |-> J("str", h.expiry_mmdd),
               quantity |-> JNum(RInt(h.quantity)),
               avg_cost |-> JNum(h.avg_cost)])])

PlEntryJson(e) ==
  J("obj", [date |-> J("str", e.date), asset |-> J("str", e.asset),
        qty |-> JNum(RInt(e.qty)), realized_pl |-> JNum(e.realized_pl)])

\* serde_json::to_string_pretty(self)
to_string_pretty(st) ==
  J("obj", [holdings |-> J("arr", [i \in 1..Len(st.holdings) |->
                             HoldingJson(st.holdings[i])]),
        daily_pl |-> J("arr", [i \in 1..Len(st.daily_pl) |->
                             PlEntryJson(st.daily_pl[i])])])

\* Deserialize: a struct needs every field of it with a value of the field's
\* type and ignores the others
HasFields(j, tag) ==
  /\ j.t = "obj"
  /\ DOMAIN tag \subseteq DOMAIN j.v
  /\ \A n \in DOMAIN tag : j.v[n].t = tag[n]

Fields ==
  [Stock |-> [symbol |-> "str", quantity |-> "num", avg_cost |-> "num"],
   Option |-> [symbol |-> "str", strike |-> "num", call_put |-> "str",
               expiry_mmdd |-> "str", quantity |-> "num", avg_cost |-> "num"],
   PlEntry |-> [date |-> "str", asset |-> "str", qty |-> "num",
                realized_pl |-> "num"],
   BotState |-> [holdings |-> "arr", daily_pl |-> "arr"]]

\* <<>> for Err, else <<value>>.  The quantities, strikes and P/L quantities
\* of the ledgers written are whole numbers.
HoldingOf(j) ==
  IF j.t = "obj" /\ DOMAIN j.v = {"Stock"}
     /\ HasFields(j.v.Stock, Fields.Stock)
  THEN LET f == j.v.Stock.v
       IN  <<StockHolding(f.symbol.v, f.quantity.v.n, f.avg_cost.v)>>
  ELSE IF j.t = "obj" /\ DOMAIN j.v = {"Option"}
          /\ HasFields(j.v.Option, Fields.Option)
          /\ j.v.Option.v.quantity.v.d = 1 /\ j.v.Option.v.quantity.v.n >= 0
  THEN LET f == j.v.Option.v
       IN  <<OptionHolding(f.symbol.v, f.strike.v.n, f.call_put.v,
                           f.expiry_mmdd.v, f.quantity.v.n, f.avg_cost.v)>>
  ELSE <<>>

PlEntryOf(j) ==
  IF HasFields(j, Fields.PlEntry)
  THEN <<PlEntry(j.v.date.v, j.v.asset.v, j.v.qty.v.n, j.v.realized_pl.v)>>
  ELSE <<>>

\* serde_json::from_str::<BotState>(&s)
from_str(j) ==
  IF ~HasFields(j, Fields.BotState) THEN <<>>
  ELSE
    LET hs == [i \in 1..Len(j.v.holdings.v) |-> HoldingOf(j.v.holdings.v[i])]
        es == [i \in 1..Len(j.v.daily_pl.v) |-> PlEntryOf(j.v.daily_pl.v[i])]
    IN  IF \/ \E i \in 1..Len(hs) : hs[i] = <<>>
           \/ \E i \in 1..Len(es) : es[i] = <<>>
        THEN <<>>
        ELSE <<[holdings |-> [i \in 1..Len(hs) |-> hs[i][1]],
                daily_pl |-> [i \in 1..Len(es) |-> es[i][1]]]>>

\* mutant of load: a missing daily_pl takes its default
load_default(file) ==
  LET j == file.text
      full == IF j.t = "obj" /\ DOMAIN j.v = {"holdings"}
              THEN J("obj", [holdings |-> j.v.holdings,
                             daily_pl |-> J("arr", <<>>)])
              ELSE j
  IN  IF file.exists /\ file.readable /\ from_str(full) # <<>>
      THEN from_str(full)[1] ELSE EmptyState

\* BotState::load(path) on the file at path: whether it exists, whether
\* read_to_string gives its text, and the text
load(file) ==
  IF file.exists
  THEN IF file.readable
       THEN IF from_str(file.text) # <<>>
            THEN from_str(file.text)[1]
            ELSE EmptyState
       ELSE EmptyState
  ELSE EmptyState

\* the ledgers a state file was saved from: the positions of a resync and
\* the P/L entries of up to MaxCalls sells
StoredLedgers ==
  {[holdings |-> positions_simple(raw),
    daily_pl |-> [i \in 1..n |-> PlEntry(Today, "AAPL", i, Rat(i, 2))]] :
     raw \in RawLists({MaxQty}), n \in 0..MaxCalls}

\* what became of the text since it was saved
Damaged(j, damage) ==
  LET HalfMore(h) ==
        IF "Option" \in DOMAIN h.v
        THEN J("obj", [Option |->
               J("obj", [h.v.Option.v EXCEPT
                           !.quantity = JNum(RAdd(h.v.Option.v.quantity.v,
                                                  Rat(1, 2)))])])
        ELSE h
  IN
  CASE damage = "none" -> j
    [] damage = "unknown_field" ->
         J("obj", [holdings |-> j.v.holdings, daily_pl |-> j.v.daily_pl,
                   version |-> JNum(RInt(3))])
    [] damage = "truncated" -> NotJson
    [] damage = "no_daily_pl" -> J("obj", [holdings |-> j.v.holdings])
    [] damage = "holdings_not_array" ->
         J("obj", [holdings |-> J("str", "-"), daily_pl |-> j.v.daily_pl])
    [] damage = "fractional_contracts" ->
         J("obj", [holdings |-> J("arr", [i \in 1..Len(j.v.holdings.v) |->
                                           HalfMore(j.v.holdings.v[i])]),
                   daily_pl |-> j.v.daily_pl])

StateFiles ==
  [stored : StoredLedgers,
   damage : {"none", "unknown_field", "truncated", "no_daily_pl",
             "holdings_not_array", "fractional_contracts"},
   exists : BOOLEAN, readable : BOOLEAN]

\* BotState::load(&cfg.state.path) at startup (main.rs 39): the ledger of the
\* process is what load returns
Load ==
  \E f \in StateFiles :
    LET file == [exists |-> f.exists, readable |-> f.exists /\ f.readable,
                 text |-> Damaged(to_string_pretty(f.stored), f.damage)]
    IN
    /\ calls = <<>>
    /\ state' = load(file)
    /\ calls' = <<[op |-> "load", file |-> f, ret |-> load(file)]>>
    /\ UNCHANGED <<disk, lock, cfg, ctl, mon, nsig, nsync, next_oid, tracing,
                   log, book>>

SpecLoad == InitCall /\ [][Load]_vars

\* ----------------------------------------------------------------- claims
\* What log holds of monitor m: the arguments it was spawned with, and the
\* calls it has made since, a poll being one call whatever the number of
\* status queries it made; what a cancel returned is no call.
Traced(m) == log[m] # <<>>
Args(m) == log[m][1]
Calls(m) ==
  LET IsCall(e) == e.op \notin {"queried", "cancel_ret"}
  IN  SelectSeq(Tail(log[m]), IsCall)
Ops(m) == [i \in 1..Len(Calls(m)) |-> Calls(m)[i].op]
Ended(m) == mon[m].pc \in {"done", "panicked"}

\* the result poll_until_filled returned for the original order (phase 1)
\* or the follow-up order (phase 2), once it has
PolledAt(m, phase) ==
  {i \in 1..Len(Calls(m)) : Calls(m)[i].op = "polled" /\ Calls(m)[i].phase = phase}

HasResult(m, phase) == Traced(m) /\ PolledAt(m, phase) # {}
ResultCall(m, phase) == Calls(m)[MinOf(PolledAt(m, phase))]
Result(m, phase) ==
  [status |-> ResultCall(m, phase).status,
   filled_qty |-> ResultCall(m, phase).qty,
   avg_fill_price |-> ResultCall(m, phase).price]

\* the calls of monitor m with an op in S, in order
CallsIn(m, S) == LET T(e) == e.op \in S IN SelectSeq(Calls(m), T)

IsPrefix(a, b) == Len(a) <= Len(b) /\ SubSeq(b, 1, Len(a)) = a

BuyEndedWith(m, S) ==
  /\ HasResult(m, 1)
  /\ Args(m).action = "BTO"
  /\ Result(m, 1).status \in S

SellEndedWith(m, S) ==
  /\ HasResult(m, 1)
  /\ Args(m).action = "STC"
  /\ Result(m, 1).status \in S

\* C1: a buy monitor (stock or option) whose poll ends with Filled makes
\* exactly one buy-upsert, followed by a save, and never a cancel: its calls
\* are always a prefix of poll result, upsert, save, and are all of them
\* when it has returned.
C1_FilledBuyOneUpsertNoCancel ==
  \A m \in Monitors :
    BuyEndedWith(m, {"Filled"}) =>
      /\ IsPrefix(Ops(m), <<"polled", "upsert", "save">>)
      /\ Ended(m) => Ops(m) = <<"polled", "upsert", "save">>

C1_Witness ==
  \E m \in Monitors :
    /\ BuyEndedWith(m, {"Filled"})
    /\ mon[m].pc = "done"
    /\ Args(m).kind = "Option"
    /\ Len(CallsIn(m, {"upsert"})) = 1

\* C2 as claimed: when a buy monitor's poll ends with Filled, the quantity
\* and the price of its upsert are the reported filled quantity and the
\* reported average fill price.
C2_UpsertReportedFill ==
  \A m \in Monitors :
    BuyEndedWith(m, {"Filled"}) /\ Ended(m) =>
      \A i \in 1..Len(Calls(m)) :
        Calls(m)[i].op = "upsert" =>
          /\ Calls(m)[i].qty = Result(m, 1).filled_qty
          /\ Calls(m)[i].price = Result(m, 1).avg_fill_price

\* C2 amended: when a buy monitor's poll ends with Filled, its one upsert
\* passes the quantity the order was placed for and the reported average
\* fill price, whatever filled quantity is reported.
C2_UpsertRequestedQty ==
  \A m \in Monitors :
    BuyEndedWith(m, {"Filled"}) /\ Ended(m) =>
      CallsIn(m, {"upsert", "realize"}) =
        <<Ev("upsert", "-", Args(m).qty, Result(m, 1).avg_fill_price, 0, 1)>>

C2_Witness ==
  \E m \in Monitors :
    /\ BuyEndedWith(m, {"Filled"})
    /\ mon[m].pc = "done"
    /\ Result(m, 1).filled_qty # Args(m).qty
    /\ \E i \in 1..Len(Calls(m)) :
         Calls(m)[i].op = "upsert" /\ Calls(m)[i].qty = Args(m).qty

\* C3: a buy monitor whose poll ends at the deadline with Working or Unknown
\* issues exactly one cancel, for its own order, and makes no ledger call:
\* its calls are the poll result and that cancel.
C3_WorkingBuyCancelOnly ==
  \A m \in Monitors :
    BuyEndedWith(m, {"Working", "Unknown"}) =>
      /\ Calls(m) = <<ResultCall(m, 1), Ev("cancel", "-", 0, 0, Args(m).oid, 1)>>
      /\ CallsIn(m, {"upsert", "realize", "save"}) = <<>>

C3_Witness ==
  \E m \in Monitors :
    /\ BuyEndedWith(m, {"Unknown"})
    /\ mon[m].pc = "done"
    /\ Result(m, 1).filled_qty > 0
    /\ Len(CallsIn(m, {"cancel"})) = 1

\* C4: a buy monitor whose poll ends at the deadline with PartiallyFilled
\* and filled quantity f: when f > 0 it upserts exactly f at the reported
\* average fill price, saves, and then cancels; when f = 0 it makes no
\* ledger call and still cancels.
C4_PartialBuy ==
  \A m \in Monitors :
    BuyEndedWith(m, {"PartiallyFilled"}) =>
      LET f == Result(m, 1).filled_qty
          cancel == Ev("cancel", "-", 0, 0, Args(m).oid, 1)
          full == IF f > 0
                  THEN <<ResultCall(m, 1),
                         Ev("upsert", "-", f, Result(m, 1).avg_fill_price, 0, 1),
                         Ev("save", "-", 0, 0, 0, 1), cancel>>
                  ELSE <<ResultCall(m, 1), cancel>>
      IN  /\ IsPrefix(Calls(m), full)
          /\ mon[m].pc \in {"cancel", "done"} => Calls(m) = full

C4_Witness ==
  \E m \in Monitors :
    /\ BuyEndedWith(m, {"PartiallyFilled"})
    /\ mon[m].pc = "done"
    /\ Result(m, 1).filled_qty > 0
    /\ Result(m, 1).filled_qty < Args(m).qty
    /\ Len(CallsIn(m, {"upsert"})) = 1
    /\ Len(CallsIn(m, {"cancel"})) = 1

\* the calls a sell monitor makes for a fill: realize, then save
Realized(q, price, phase) ==
  <<Ev("realize", "-", q, price, 0, phase), Ev("save", "-", 0, 0, 0, phase)>>

\* C5 as claimed: a limit sell monitor whose poll ends at the deadline with
\* PartiallyFilled and 0 < f < requested makes, in this order, one realize
\* for f, one cancel of its order, one submission of a market sell for the
\* remainder and, when the follow-up's poll result reports a filled
\* quantity, a second realize for that quantity; and no other realize,
\* cancel or submission.
C5_PartialLimitSellFallback ==
  \A m \in Monitors :
    ( /\ SellEndedWith(m, {"PartiallyFilled"})
      /\ ~Args(m).was_market
      /\ Result(m, 1).filled_qty > 0
      /\ Result(m, 1).filled_qty < Args(m).qty
      /\ Ended(m) ) =>
      LET f == Result(m, 1).filled_qty
          second == IF HasResult(m, 2) /\ Result(m, 2).filled_qty > 0
                    THEN <<Ev("realize", "-", Result(m, 2).filled_qty,
                              Result(m, 2).avg_fill_price, 0, 2)>>
                    ELSE <<>>
      IN  CallsIn(m, {"realize", "cancel", "place_market"}) =
            <<Ev("realize", "-", f, Result(m, 1).avg_fill_price, 0, 1),
              Ev("cancel", "-", 0, 0, Args(m).oid, 1),
              Ev("place_market", "-", Args(m).qty - f, 0, 0, 1)>> \o second

\* C6: a sell monitor whose poll ends with Filled makes exactly one realize,
\* for the quantity the order was placed for (not the reported filled
\* quantity) at the reported average fill price, saves, and issues no cancel
\* and no follow-up order.
C6_FilledSellRequestedQty ==
  \A m \in Monitors :
    SellEndedWith(m, {"Filled"}) =>
      LET full == <<ResultCall(m, 1)>> \o
                  Realized(Args(m).qty, Result(m, 1).avg_fill_price, 1)
      IN  /\ IsPrefix(Calls(m), full)
          /\ Ended(m) => Calls(m) = full

C6_Witness ==
  \E m \in Monitors :
    /\ SellEndedWith(m, {"Filled"})
    /\ mon[m].pc = "done"
    /\ Result(m, 1).filled_qty < Args(m).qty
    /\ \E i \in 1..Len(Calls(m)) :
         Calls(m)[i].op = "realize" /\ Calls(m)[i].qty = Args(m).qty

\* C7: a market sell monitor whose poll ends at the deadline with
\* PartiallyFilled, Working or Unknown never cancels and never submits a
\* follow-up order; its only ledger call is one realize (and its save) for
\* the reported filled quantity, made when that quantity is positive.
C7_MarketSellLeftAlone ==
  \A m \in Monitors :
    SellEndedWith(m, OpenStatuses) /\ Args(m).was_market =>
      LET f == Result(m, 1).filled_qty
          full == <<ResultCall(m, 1)>> \o
                  (IF f > 0 THEN Realized(f, Result(m, 1).avg_fill_price, 1)
                   ELSE <<>>)
      IN  /\ IsPrefix(Calls(m), full)
          /\ Ended(m) => Calls(m) = full

C7_Witness ==
  \E m \in Monitors :
    /\ SellEndedWith(m, {"Working"})
    /\ Args(m).was_market
    /\ mon[m].pc = "done"
    /\ Result(m, 1).filled_qty > 0
    /\ Result(m, 1).filled_qty < Args(m).qty
    /\ Len(CallsIn(m, {"realize"})) = 1

\* C8: a sell monitor submits at most one follow-up order; after the
\* follow-up's poll result it issues no cancel and no order, only the realize
\* and save of the reported fill when that is positive, and nothing at all
\* when it is zero; daily_pl holds no more entries than realize calls made.
C8_OneFollowUpOnly ==
  /\ \A m \in Monitors :
       Traced(m) =>
         /\ Len(CallsIn(m, {"place_market"})) <= 1
         /\ HasResult(m, 2) =>
              LET k == MinOf(PolledAt(m, 2))
                  f2 == Result(m, 2).filled_qty
                  after == SubSeq(Calls(m), k + 1, Len(Calls(m)))
                  full == IF f2 > 0
                          THEN Realized(f2, Result(m, 2).avg_fill_price, 2)
                          ELSE <<>>
              IN  /\ IsPrefix(after, full)
                  /\ Ended(m) => after = full
  /\ Len(state.daily_pl) <=
       SumSeq([m \in Monitors |->
                 IF Traced(m) THEN Len(CallsIn(m, {"realize"})) ELSE 0])

C8_Witness ==
  \E m \in Monitors :
    /\ HasResult(m, 2)
    /\ mon[m].pc = "done"
    /\ Result(m, 2).status \in OpenStatuses
    /\ Result(m, 2).filled_qty = 0
    /\ Len(CallsIn(m, {"place_market"})) = 1
    /\ Len(CallsIn(m, {"realize"})) = 1
    /\ Len(state.daily_pl) = 1

\* the poll result of a phase carries a fill the monitor is to record: for
\* the original order a Filled status, a partially filled buy, or an open
\* sell with a positive filled quantity; for the follow-up order a positive
\* filled quantity
FillObserved(m, phase) ==
  /\ HasResult(m, phase)
  /\ LET r == Result(m, phase) IN
     IF phase = 2 THEN r.filled_qty > 0
     ELSE \/ r.status = "Filled"
          \/ /\ r.filled_qty > 0
             /\ IF Args(m).action = "BTO" THEN r.status = "PartiallyFilled"
                ELSE r.status \in OpenStatuses

\* C9: within every monitor, the ledger call for a fill and its save come
\* before any cancel or follow-up submission made for the same poll result:
\* no cancel or submission precedes a ledger call or save of its phase, and
\* when the poll result carries a fill, every cancel and submission of that
\* phase has the ledger call and the save before it.
C9_CommitBeforeCancel ==
  \A m \in Monitors :
    Traced(m) =>
      \A j \in 1..Len(Calls(m)) :
        Calls(m)[j].op \in {"cancel", "place_market"} =>
          /\ \A i \in (j + 1)..Len(Calls(m)) :
               Calls(m)[i].phase = Calls(m)[j].phase =>
                 Calls(m)[i].op \notin {"upsert", "realize", "save"}
          /\ FillObserved(m, Calls(m)[j].phase) =>
               \E i \in 1..(j - 2) :
                 /\ Calls(m)[i].op \in {"upsert", "realize"}
                 /\ Calls(m)[i].phase = Calls(m)[j].phase
                 /\ Calls(m)[i + 1].op = "save"

C9_Witness ==
  \E m \in Monitors :
    /\ Traced(m)
    /\ FillObserved(m, 1)
    /\ mon[m].pc = "place"
    /\ Ops(m) = <<"polled", "realize", "save", "cancel", "place_market">>

\* the task holding the ledger lock is suspended in a brokerage call
HeldAcrossNetworkCall ==
  \/ lock = MainTask /\ ctl.pc \in CtlNetworkPcs
  \/ \E m \in Monitors : lock = m /\ mon[m].pc \in MonNetworkPcs

\* C10: in every reachable state no task (the control loop with its resync,
\* or a monitor) holds the ledger lock while a brokerage call of that task
\* (status query, cancel, order submission, instrument lookup, quote,
\* position listing) is in progress; the holder is in the block that took
\* the lock.
C10_NoLockAcrossNetworkCall ==
  /\ ~HeldAcrossNetworkCall
  /\ lock = MainTask => ctl.pc \in {"init_cs", "sync_cs", "risk_cs"}
  /\ \A m \in Monitors : lock = m => mon[m].pc \in {"cs_fill", "cs_fill2"}

C10_Witness ==
  \E m, n \in Monitors :
    /\ lock = m
    /\ mon[m].pc = "cs_fill2"
    /\ mon[n].pc = "cancel"
    /\ ctl.pc = "sync_positions"

\* the tasks inside a block that reads or writes the ledger: a monitor
\* between taking the lock and the end of its save, the control loop in its
\* risk check or in a resync's set_holdings and save
InLedgerBlock ==
  {m \in Monitors : mon[m].pc \in {"cs_fill", "cs_fill2"}} \cup
  (IF ctl.pc \in {"init_cs", "sync_cs", "risk_cs"} THEN {MainTask} ELSE {})

\* C11: a monitor's ledger update (the upsert or realize with its save) is
\* atomic with respect to the other monitors, the risk check and the resync:
\* at most one task is inside a ledger block and it is the lock's holder;
\* every step that changes the ledger or the state file is the whole block
\* of that holder, ending with the lock released; and while a task is
\* inside its block no step of another task changes the ledger or the file.
C11_AtomicLedgerUpdate ==
  [][ /\ InLedgerBlock = (IF lock = Free THEN {} ELSE {lock})
      /\ (state' # state \/ disk' # disk) =>
           /\ lock # Free
           /\ InLedgerBlock = {lock}
           /\ InLedgerBlock' = {}
           /\ lock' = Free
      /\ \A t \in InLedgerBlock :
           t \in InLedgerBlock' => state' = state /\ disk' = disk
    ]_vars

C11_Witness ==
  \E m, n \in Monitors :
    /\ lock = m
    /\ mon[m].pc = "cs_fill"
    /\ mon[n].pc = "lock_fill"
    /\ ctl.pc \in {"sync_lock", "risk_lock"}
    /\ state.holdings # <<>>

\* the instrument key of a holding: the symbol for a stock; the symbol,
\* strike, side and expiry for an option; letters compared without case
HoldingKey(h) ==
  IF h.kind = "Stock" THEN <<"Stock", to_ascii_uppercase(h.symbol)>>
  ELSE <<"Option", to_ascii_uppercase(h.symbol), h.strike,
         to_ascii_uppercase(h.call_put), h.expiry_mmdd>>

\* C12 as claimed: in every ledger state reached by buy-upserts,
\* sell-realizes and resyncs, no two holdings have the same instrument key.
C12_OneHoldingPerKey ==
  \A i, j \in 1..Len(state.holdings) :
    HoldingKey(state.holdings[i]) = HoldingKey(state.holdings[j]) => i = j

\* C13: daily_pl is append-only: across every ledger call (buy-upsert,
\* realize-sell, set_holdings) the daily_pl before it is a prefix of the
\* daily_pl after it, so no entry is ever changed or removed.
C13_DailyPlAppendOnly ==
  [][IsPrefix(state.daily_pl, state'.daily_pl)]_vars

C13_Witness ==
  /\ Len(calls) = 2
  /\ calls[1].op \in {"realize_stock", "realize_option"}
  /\ calls[2].op \in {"realize_stock", "realize_option"}
  /\ Len(calls[1].after.daily_pl) = 1
  /\ Len(state.daily_pl) = 2
  /\ state.daily_pl[1] # state.daily_pl[2]

\* C14 as claimed: every sell fill a sell monitor commits (the original
\* order's, full or partial, and the follow-up market order's) appends
\* exactly one PlEntry, whatever the holdings are at the commit: daily_pl,
\* empty when the monitors start, has one entry per realize call made.
C14_OneEntryPerSellFill ==
  Len(state.daily_pl) =
    SumSeq([m \in Monitors |->
              IF Traced(m) THEN Len(CallsIn(m, {"realize"})) ELSE 0])

\* C15: set_holdings(new) leaves holdings equal to new, nothing of the
\* previous holdings merged in whatever upserts or realizes came before,
\* and leaves daily_pl as it was.
C15_SetHoldingsReplaces ==
  \A k \in 1..Len(calls) :
    calls[k].op = "set_holdings" =>
      /\ calls[k].after.holdings = calls[k].new
      /\ calls[k].after.daily_pl = calls[k].before.daily_pl
      /\ k = Len(calls) => state = calls[k].after

C15_Witness ==
  /\ Len(calls) = 2
  /\ calls[1].op = "realize_stock"
  /\ calls[2].op = "set_holdings"
  /\ calls[2].before.holdings # <<>>
  /\ calls[2].before.daily_pl # <<>>
  /\ calls[2].new # <<>>
  /\ calls[2].new # calls[2].before.holdings
  /\ state.holdings = calls[2].new

\* the instrument key a ledger call names, and the holdings of hs under a key
CallKey(c) ==
  IF c.op \in {"upsert_stock", "realize_stock"}
  THEN <<"Stock", to_ascii_uppercase(c.symbol)>>
  ELSE <<"Option", to_ascii_uppercase(c.symbol), c.strike,
         to_ascii_uppercase(c.cp), c.expiry>>

KeyIdx(hs, key) == {i \in 1..Len(hs) : HoldingKey(hs[i]) = key}

IsUpsert(c) == c.op \in {"upsert_stock", "upsert_option"}

\* C16: a buy-upsert on an existing holding adds fillQty to its quantity and
\* sets its average cost to (oldAvg*oldQty + fillPrice*fillQty) /
\* (oldQty + fillQty); on a ledger without the instrument it adds a holding
\* with the fill's quantity and price; every other holding and daily_pl are
\* unchanged.  Hence fills q1@p1 then q2@p2 on a ledger without the
\* instrument leave one holding of q1+q2 at (q1*p1+q2*p2)/(q1+q2).
C16_WeightedAverage ==
  /\ \A k \in 1..Len(calls) :
       IsUpsert(calls[k]) =>
         LET c == calls[k]
             b == c.before.holdings
             a == c.after.holdings
             I == KeyIdx(b, CallKey(c))
         IN  /\ c.after.daily_pl = c.before.daily_pl
             /\ IF I = {}
                THEN /\ Len(a) = Len(b) + 1
                     /\ SubSeq(a, 1, Len(b)) = b
                     /\ HoldingKey(a[Len(a)]) = CallKey(c)
                     /\ a[Len(a)].quantity = c.qty
                     /\ a[Len(a)].avg_cost = RInt(c.price)
                ELSE LET i == MinOf(I)
                         old == b[i]
                     IN  /\ Len(a) = Len(b)
                         /\ \A j \in 1..Len(b) : j # i => a[j] = b[j]
                         /\ HoldingKey(a[i]) = HoldingKey(old)
                         /\ a[i].quantity = old.quantity + c.qty
                         /\ a[i].avg_cost =
                              Rat(old.avg_cost.n * old.quantity
                                    + c.price * c.qty * old.avg_cost.d,
                                  old.avg_cost.d * (old.quantity + c.qty))
  /\ \A k \in 1..(Len(calls) - 1) :
       ( /\ IsUpsert(calls[k])
         /\ calls[k + 1].op = calls[k].op
         /\ KeyIdx(calls[k].before.holdings, CallKey(calls[k])) = {} ) =>
         LET c1 == calls[k]
             c2 == calls[k + 1]
             a == c2.after.holdings
             I == KeyIdx(a, CallKey(c1))
         IN  /\ Cardinality(I) = 1
             /\ a[MinOf(I)].quantity = c1.qty + c2.qty
             /\ a[MinOf(I)].avg_cost =
                  Rat(c1.qty * c1.price + c2.qty * c2.price, c1.qty + c2.qty)

C16_Witness ==
  /\ Len(calls) = 2
  /\ calls[1].op = "upsert_stock" /\ calls[2].op = "upsert_stock"
  /\ calls[1].before.holdings # <<>>
  /\ KeyIdx(calls[1].before.holdings, CallKey(calls[1])) = {}
  /\ calls[1].qty = 1 /\ calls[1].price = 1
  /\ calls[2].qty = 2 /\ calls[2].price = 2
  /\ \E i \in 1..Len(state.holdings) :
       /\ state.holdings[i].kind = "Stock"
       /\ state.holdings[i].quantity = 3
       /\ state.holdings[i].avg_cost = [n |-> 5, d |-> 3]

\* the buy-upserts monitor m has made, and the ledger after the upserts of
\* the monitors of ms, applied to the empty ledger in the order of ms
Upserts(m) == IF Traced(m) THEN CallsIn(m, {"upsert"}) ELSE <<>>

RECURSIVE Serialized(_, _)
Serialized(kind, ms) ==
  IF ms = <<>> THEN EmptyState
  ELSE LET m == ms[Len(ms)]
           st == Serialized(kind, SubSeq(ms, 1, Len(ms) - 1))
           u == Upserts(m)
       IN  IF u = <<>> THEN st
           ELSE IF kind = "Stock"
           THEN upsert_stock_buy_with_cost(st, "AAPL", u[1].qty, u[1].price)
           ELSE upsert_option_buy_with_cost(st, "AAPL", Strike, "C", SignalExpiry,
                                            u[1].qty, u[1].price)

\* C17: when two buy monitors of one instrument commit their fills
\* concurrently, the holding is the same for both orders in which the lock
\* can serialize the two upserts: once both monitors have returned, the
\* ledger is the one either order of the two upserts yields, with the sum
\* of the fills as quantity and the sum of their costs as quantity times
\* average cost.
C17_BuyOrderIndependent ==
  (Ended(1) /\ Ended(2) /\ Traced(1) /\ Traced(2)
     /\ Args(1).action = "BTO" /\ Args(2).action = "BTO") =>
    LET kind == Args(1).kind
        fills == Upserts(1) \o Upserts(2)
        qty == SumSeq([i \in 1..Len(fills) |-> fills[i].qty])
        cost == SumSeq([i \in 1..Len(fills) |-> fills[i].qty * fills[i].price])
    IN  /\ state = Serialized(kind, <<1, 2>>)
        /\ state = Serialized(kind, <<2, 1>>)
        /\ IF fills = <<>> THEN state.holdings = <<>>
           ELSE /\ Len(state.holdings) = 1
                /\ state.holdings[1].quantity = qty
                /\ RMul(state.holdings[1].avg_cost, RInt(qty)) = RInt(cost)

\* both monitors have committed, fills of different quantity and price
C17_Witness ==
  /\ Ended(1) /\ Ended(2)
  /\ Len(Upserts(1)) = 1 /\ Len(Upserts(2)) = 1
  /\ Upserts(1)[1].price # Upserts(2)[1].price
  /\ Upserts(1)[1].qty # Upserts(2)[1].qty
  /\ Len(state.holdings) = 1
  /\ state.holdings[1].avg_cost.d # 1

\* C18: realize sell of s at p on a matching holding of h at average cost
\* c, with q = min(s, h): returns (p - c) * q (times 100 for an option),
\* appends one PlEntry of quantity q and that amount, leaves the holding
\* with h - q at the same average cost when h - q > 0 and removes it when
\* h - q is zero; the other holdings are unchanged.
C18_RealizeSell ==
  \A k \in 1..Len(calls) :
    LET c == calls[k]
        b == c.before.holdings
        a == c.after.holdings
        I == KeyIdx(b, CallKey(c))
    IN  (c.op \in {"realize_stock", "realize_option"} /\ I # {}) =>
          LET i == MinOf(I)
              h == b[i].quantity
              q == IF c.qty <= h THEN c.qty ELSE h
              mult == IF c.op = "realize_option" THEN 100 ELSE 1
              amount == Rat((c.price * b[i].avg_cost.d - b[i].avg_cost.n) * q * mult,
                            b[i].avg_cost.d)
              pl == c.after.daily_pl
          IN  /\ c.ret = amount
              /\ Len(pl) = Len(c.before.daily_pl) + 1
              /\ SubSeq(pl, 1, Len(pl) - 1) = c.before.daily_pl
              /\ pl[Len(pl)].qty = q
              /\ pl[Len(pl)].realized_pl = amount
              /\ IF h - q > 0
                 THEN /\ Len(a) = Len(b)
                      /\ \A j \in 1..Len(b) : j # i => a[j] = b[j]
                      /\ a[i] = [b[i] EXCEPT !.quantity = h - q]
                 ELSE /\ Len(a) = Len(b) - 1
                      /\ \A j \in 1..Len(a) : a[j] = IF j < i THEN b[j] ELSE b[j + 1]

C18_Witness ==
  /\ Len(calls) = 2
  /\ calls[1].op = "upsert_stock"
  /\ calls[2].op = "realize_stock"
  /\ calls[2].qty = 1
  /\ calls[2].ret = [n |-> 2, d |-> 3]
  /\ \E i \in 1..Len(state.holdings) :
       /\ state.holdings[i].kind = "Stock"
       /\ state.holdings[i].quantity = 2
       /\ state.holdings[i].avg_cost = [n |-> 4, d |-> 3]
  /\ Len(state.daily_pl) = 1

\* the notional of a checked signal, its instrument key, and the quantity
\* the ledger holds under a key
Notional(c) ==
  c.est_price * c.signal.quantity * (IF c.signal.asset = "Option" THEN 100 ELSE 1)

SignalKey(sig) ==
  IF sig.asset = "Stock" THEN <<"Stock", to_ascii_uppercase(sig.symbol)>>
  ELSE <<"Option", to_ascii_uppercase(sig.symbol), sig.strike,
         to_ascii_uppercase(sig.call_put), sig.expiry_mmdd>>

HeldQty(st, key) ==
  SumSeq([i \in 1..Len(st.holdings) |->
            IF HoldingKey(st.holdings[i]) = key THEN st.holdings[i].quantity
            ELSE 0])

\* C19: the risk check rejects every signal whose notional (estimated price
\* times quantity, times 100 for an option) is greater than the maximum
\* position value, and does not reject on notional otherwise: with a
\* notional at or below the maximum a buy is accepted, and a sell is
\* rejected only when the ledger holds less than it asks for.
C19_NotionalCap ==
  \A k \in 1..Len(calls) :
    calls[k].op = "pre_check" =>
      LET c == calls[k] IN
      /\ Notional(c) > c.max_position_value => ~c.ok
      /\ Notional(c) <= c.max_position_value =>
           /\ c.signal.action = "BTO" => c.ok
           /\ ~c.ok => HeldQty(state, SignalKey(c.signal)) < c.signal.quantity

\* an order exactly at the cap is accepted
C19_Witness ==
  /\ Len(calls) = 1
  /\ calls[1].op = "pre_check"
  /\ Notional(calls[1]) = calls[1].max_position_value
  /\ calls[1].signal.asset = "Option"
  /\ calls[1].ok

\* C20 as claimed: the risk check rejects every STC signal asking for more
\* than the ledger holds of the matching instrument, whatever the notional,
\* and never rejects a BTO signal for the holdings.
C20_SellNeedsHolding ==
  \A k \in 1..Len(calls) :
    calls[k].op = "pre_check" =>
      LET c == calls[k] IN
      /\ ( /\ c.signal.action = "STC"
           /\ c.signal.quantity > HeldQty(state, SignalKey(c.signal)) ) => ~c.ok
      /\ (c.signal.action = "BTO" /\ Notional(c) <= c.max_position_value) => c.ok

\* ------------------------------------------------------------------ C21
\* the signal of the iteration fails the risk check (main.rs 118-122)
RiskRejects ==
  /\ ctl.pc = "risk_cs"
  /\ ~pre_check(cfg.max_position_value, ctl.sig, ctl.est_price, state)

\* the step is a failure of the signal in hand: instrument resolution failed,
\* the risk check rejected it, or the brokerage refused the order
SignalFails ==
  \/ ctl.pc = "find" /\ ctl'.sig # ctl.sig
  \/ RiskRejects /\ ctl' # ctl
  \/ ctl.pc = "place" /\ ctl' # ctl /\ next_oid' = next_oid

\* C21: a step in which the signal fails instrument resolution, the risk
\* check or order placement spawns no monitor, leaves the ledger and its file
\* alone and puts the control loop back at select!, where the next signal and
\* the next resync tick are taken whenever there is one; an order is
\* submitted only for a signal that was resolved and passed the risk check
C21_FailedSignalDropped ==
  [][/\ SignalFails =>
        /\ mon' = mon /\ state' = state /\ disk' = disk
        /\ next_oid' = next_oid
        /\ ctl' = IdleCtl
        /\ nsig < MaxSignals => (ENABLED Recv(Signals(1, MaxPrice)))'
        /\ nsync < MaxSyncs => (ENABLED Tick)'
     /\ ctl'.pc = "place" /\ ctl.pc # "place" =>
        /\ ctl.pc = "risk_cs" /\ ~RiskRejects /\ ~cfg.dry_run
        /\ ctl'.sig = ctl.sig]_vars

\* the first signal failed (no dry run, yet no monitor was spawned for it) and
\* the loop went on to a resync tick and to the placement of the second signal
C21_Witness ==
  /\ ~cfg.dry_run
  /\ nsig = 2 /\ nsync = MaxSyncs
  /\ ctl.pc = "place"
  /\ mon[1] = IdleMon
  /\ next_oid = 1

\* ------------------------------------------------------------ C23 - C25
\* the parse that calls records
Parsed == calls # <<>> /\ calls[1].op = "parse_signal"
Accepted == Parsed /\ calls[1].ret # <<>>

\* C23: the symbol of the signal returned for an accepted text is the symbol
\* as it was written, its case kept
C23_SymbolAsWritten ==
  Accepted => calls[1].ret[1].symbol = calls[1].written.symbol

\* C24: a text without a blank right before its '@' is not matched, stock
\* form or option form, and the blanks after the '@' change nothing in what
\* is returned
C24_BlankBeforeAtRequired ==
  Parsed =>
    /\ calls[1].written.before_at = 0 => calls[1].ret = <<>>
    /\ calls[1].ret =
         parse_signal(Text([calls[1].written EXCEPT !.after_at = 0]))

\* C25: the quantity of the signal returned for an accepted text is a
\* positive integer: the quantity written, or 1 where none was written
C25_QuantityPositive ==
  Accepted =>
    /\ calls[1].ret[1].quantity \in Nat \ {0}
    /\ calls[1].ret[1].quantity =
         IF calls[1].written.quantity = <<>> THEN 1
         ELSE DecimalVal(calls[1].written.quantity)

\* ------------------------------------------------------------------ C22
\* the load that calls records
Loaded == calls # <<>> /\ calls[1].op = "load"

\* the file of the load is there, can be read, and its text is a ledger: as
\* saved, or with a field BotState does not have
ParsesAsLedger(f) ==
  /\ f.exists /\ f.readable
  /\ \/ f.damage \in {"none", "unknown_field"}
     \/ /\ f.damage = "fractional_contracts"
        /\ \A i \in 1..Len(f.stored.holdings) :
             f.stored.holdings[i].kind # "Option"

\* C22: load returns the empty ledger when the state file is absent, cannot
\* be read or does not parse as a ledger, and the ledger stored in it
\* otherwise; it returns a ledger in every case
C22_LoadNeverFails ==
  Loaded =>
    /\ calls[1].ret = IF ParsesAsLedger(calls[1].file)
                      THEN calls[1].file.stored ELSE EmptyState
    /\ state = calls[1].ret

\* a file that is there and readable but lacks a field was loaded as the
\* empty ledger although a non-empty ledger had been saved to it
C22_Witness ==
  /\ Loaded
  /\ calls[1].file.exists /\ calls[1].file.readable
  /\ calls[1].file.damage = "no_daily_pl"
  /\ calls[1].file.stored.holdings # <<>>
  /\ calls[1].ret = EmptyState

\* ------------------------------------------------------------------ C26
\* the status queries monitor m made in a phase, in order: those after which
\* the polling went on ("queried"), and the one it returned on ("polled",
\* or "poll_err" when the query itself failed)
Queries(m, phase) ==
  LET T(e) == e.op \in {"queried", "polled", "poll_err"} /\ e.phase = phase
  IN  SelectSeq(Tail(log[m]), T)

\* monitor m is past the polling of its original order
PastPoll(m) == Traced(m) /\ mon[m].pc \notin {"poll", "sleep"}

\* C26: poll_until_filled makes at least one status query; it goes on
\* polling only after a query that shows Working, PartiallyFilled or Unknown,
\* so it returns at the first Filled, Canceled or Rejected; a query made when
\* the deadline has passed ends the polling with the status and fill it
\* showed as the normal result, whatever that status is
C26_PollResult ==
  \A m \in Monitors : Traced(m) =>
    /\ PastPoll(m) => Queries(m, 1) # <<>>
    /\ \A phase \in {1, 2} :
         LET q == Queries(m, phase) IN
         /\ \A i \in 1..Len(q) :
              /\ q[i].op = "queried" => q[i].status \in OpenStatuses
              /\ i < Len(q) => q[i].op = "queried"
              /\ i = MaxPolls /\ q[i].op # "poll_err" => q[i].op = "polled"
         /\ Len(q) <= MaxPolls
         /\ HasResult(m, phase) =>
              /\ q[Len(q)] = ResultCall(m, phase)
              /\ mon[m].pc \in (IF phase = 1 THEN {"lock_fill", "cs_fill"}
                                ELSE {"lock_fill2", "cs_fill2"}) =>
                   mon[m].info = Result(m, phase)

\* the deadline had passed at the first query already (a timeout of zero):
\* the one query was made and its Working status is the result
C26_Witness ==
  \E m \in Monitors :
    /\ PastPoll(m)
    /\ Len(Queries(m, 1)) = 1
    /\ Queries(m, 1)[1].op = "polled"
    /\ Queries(m, 1)[1].status = "Working"

\* ------------------------------------------------------------------ C27
\* monitor m is in flight: spawned and not yet returned
InFlight(m) == mon[m].pc \notin {"idle", "done", "panicked"}

\* the control loop can take the next signal and the next resync tick, where
\* there is one left
LoopGoesOn ==
  /\ ctl.pc = "select"
  /\ nsig < MaxSignals => ENABLED Recv(Signals(1, MaxPrice))
  /\ nsync < MaxSyncs => ENABLED Tick

\* C27: the step in which the brokerage accepts the order of a signal spawns
\* the order's monitor and leaves the control loop at select!, able to take
\* the next signal and the next resync tick; and no step of a monitor, any
\* number of them in flight, takes the control loop from there
C27_MonitorsNeverBlock ==
  [][/\ ctl.pc = "place" /\ ctl' # ctl /\ next_oid' # next_oid =>
          InFlight(nsig)' /\ LoopGoesOn'
     /\ LoopGoesOn /\ ctl' = ctl /\ (\E m \in Monitors : InFlight(m)) =>
          LoopGoesOn']_vars

\* ------------------------------------------------------------------ C28
\* the poll of monitor m's original order returned Canceled or Rejected,
\* for a sell with no fill reported
EndedUnfilled(m) ==
  \/ BuyEndedWith(m, {"Canceled", "Rejected"})
  \/ SellEndedWith(m, {"Canceled", "Rejected"}) /\ Result(m, 1).filled_qty = 0

\* C28: a monitor, buy or sell, whose poll returns Canceled or Rejected
\* (for a sell, with no fill reported) has returned with that poll as its
\* only call: no ledger call, no save, no cancel, no follow-up order; the
\* ledger and its file are as they were
C28_CanceledRejectedNoAction ==
  [][\A m \in Monitors :
       /\ EndedUnfilled(m) => Ops(m) = <<"polled">> /\ Ended(m)
       /\ EndedUnfilled(m)' /\ ~EndedUnfilled(m) =>
            state' = state /\ disk' = disk /\ next_oid' = next_oid]_vars

\* a limit sell of an option was rejected with no fill; its monitor is done
C28_Witness ==
  \E m \in Monitors :
    /\ SellEndedWith(m, {"Rejected"})
    /\ Result(m, 1).filled_qty = 0
    /\ Args(m).kind = "Option" /\ ~Args(m).was_market
    /\ Ended(m)

\* ------------------------------------------------------------------ C29
\* the follow-up market orders monitor m has sent
FollowUps(m) == CallsIn(m, {"place_market"})

\* what the original order of monitor m had left unfilled when its poll
\* returned
Unfilled(m) ==
  IF Args(m).qty > Result(m, 1).filled_qty
  THEN Args(m).qty - Result(m, 1).filled_qty ELSE 0

\* C29: the follow-up market sell is for the requested quantity less the
\* fill reported when the poll of the limit order returned, and for nothing
\* below zero; when that is zero no follow-up order is sent
C29_FallbackQuantity ==
  \A m \in Monitors : Traced(m) =>
    /\ \A i \in 1..Len(FollowUps(m)) :
         /\ HasResult(m, 1)
         /\ FollowUps(m)[i].qty = Unfilled(m)
         /\ FollowUps(m)[i].qty > 0
    /\ HasResult(m, 1) /\ Unfilled(m) = 0 => FollowUps(m) = <<>>

\* a limit sell of MaxQty had one unit filled at the deadline: the follow-up
\* is for the rest
C29_Witness ==
  \E m \in Monitors :
    /\ SellEndedWith(m, {"PartiallyFilled"})
    /\ Args(m).qty = MaxQty
    /\ Result(m, 1).filled_qty = 1
    /\ Len(FollowUps(m)) = 1
    /\ FollowUps(m)[1].qty = MaxQty - 1

\* ------------------------------------------------------------------ C30
\* the expiries a holding or a signal of the series can carry
Expiries == {SignalExpiry, SnapshotExpiry, "0920", "0000"}

\* the quantity held under all four parts of an option key
HeldUnderExpiry(st, expiry) ==
  SumSeq([i \in 1..Len(st.holdings) |->
            IF MatchOption(st.holdings[i], "AAPL", Strike, "C", expiry)
            THEN st.holdings[i].quantity ELSE 0])

\* C30: position_qty_option adds up the Option holdings whose symbol,
\* strike, side and expiry all match and no others, so the risk check rejects
\* an STC option signal when the ledger holds the series only under other
\* expiries
C30_OptionQtyByExpiry ==
  /\ \A e \in Expiries :
       position_qty_option(state, "AAPL", Strike, "C", e) = HeldUnderExpiry(state, e)
  /\ \A k \in 1..Len(calls) :
       /\ calls[k].op = "pre_check"
       /\ calls[k].signal.asset = "Option" /\ calls[k].signal.action = "STC"
       /\ HeldUnderExpiry(state, calls[k].signal.expiry_mmdd) = 0
       => ~calls[k].ok


\* the cancel of monitor m's original order has just returned res: the
\* step appends the record of it to the monitor's log
CancelReturned(m, res) ==
  /\ mon[m].pc = "cancel"
  /\ mon'[m].pc # "cancel"
  /\ Len(log'[m]) > Len(log[m])
  /\ log'[m][Len(log[m]) + 1] = Ev("cancel_ret", res, 0, 0, mon[m].order_id, 1)

\* C31: a failed cancel is swallowed.  The step in which cancel_order
\* returns Err changes neither the ledger nor the state file nor the lock;
\* the monitor does not panic; it ends there only where it would after a
\* successful cancel (a buy monitor, or a sell monitor with nothing left to
\* sell); and a sell monitor with a remainder goes on with that remainder,
\* requested quantity minus reported fill: the stock monitor submits the
\* market order at once, the option monitor looks the contract up for it.
C31_FailedCancelSwallowed ==
  [][ \A m \in Monitors :
        CancelReturned(m, "Err") =>
          LET r == mon[m]
              rem == Remaining(r.qty, ReportedFill(r, r.info))
              says == SubSeq(log'[m], Len(log[m]) + 2, Len(log'[m]))
          IN  /\ state' = state /\ disk' = disk /\ lock' = lock
              /\ mon'[m].pc # "panicked"
              /\ IF r.action = "BTO" \/ rem = 0
                 THEN mon'[m].pc = "done" /\ says = <<>>
                 ELSE /\ mon'[m].remaining = rem
                      /\ IF r.kind = "Stock"
                         THEN /\ mon'[m].pc = "place"
                              /\ says = <<Ev("place_market", "-", rem, 0, 0, 1)>>
                         ELSE mon'[m].pc = "find_contract" /\ says = <<>>
    ]_vars

\* a sell monitor whose cancel failed has submitted the market order for
\* the remainder and is polling it
C31_Witness ==
  \E m \in Monitors :
    /\ Traced(m)
    /\ Args(m).action = "STC"
    /\ mon[m].pc = "poll2"
    /\ mon[m].remaining = 1
    /\ \E i \in 1..Len(log[m]) :
         log[m][i].op = "cancel_ret" /\ log[m][i].status = "Err"
    /\ Len(CallsIn(m, {"realize"})) = 1
    /\ Len(CallsIn(m, {"place_market"})) = 1

\* task t is in a block that mutates the ledger and saves it
InSaveBlock(t) ==
  /\ lock = t
  /\ IF t = MainTask THEN ctl.pc \in {"init_cs", "sync_cs"}
     ELSE mon[t].pc \in {"cs_fill", "cs_fill2"}

\* the ledger as the mutation of t's block leaves it
Mutated(t) ==
  IF t = MainTask THEN set_holdings(state, ctl.holdings)
  ELSE LET r == mon[t]
           q == IF r.pc = "cs_fill" THEN CommitQty(r, r.info)
                ELSE ReportedFill(r, r.info)
       IN  ApplyFill(state, r, q, r.info.avg_fill_price)

\* t's block ends with the file not holding the ledger: its save failed
SaveFailed(t) == InSaveBlock(t) /\ lock' # t /\ disk' # state'

\* C32: a failed save neither changes nor rolls back the in-memory ledger
\* and aborts no task.  When the save of a block fails, the ledger is the
\* one the block's mutation made, the file is as it was and the lock is
\* released; the control loop is back at select and a monitor goes on with
\* its protocol (the cancel of its arm, which leads to the fallback order,
\* or its return where the arm has no more to do).  And the ledger changes
\* in no other step than a block's mutation, so every later read sees it.
C32_FailedSaveKeepsLedger ==
  [][ /\ \A t \in {MainTask} \cup Monitors :
           SaveFailed(t) =>
             /\ state' = Mutated(t)
             /\ disk' = disk
             /\ lock' = Free
             /\ t = MainTask => ctl' = IdleCtl
             /\ t # MainTask =>
                  mon'[t].pc = IF mon[t].pc = "cs_fill" /\ NeedsCancel(mon[t], mon[t].info)
                               THEN "cancel" ELSE "done"
      /\ state' # state =>
           \E t \in {MainTask} \cup Monitors : InSaveBlock(t) /\ state' = Mutated(t)
    ]_vars

\* the sell monitor's realize was not saved, no resync has run since, and
\* the monitor has cancelled its order and submitted the market order for
\* the remainder
C32_Witness ==
  /\ mon[1].action = "STC"
  /\ mon[1].pc = "place"
  /\ mon[1].remaining = 1
  /\ nsync = 0
  /\ disk.daily_pl = <<>>
  /\ Len(state.daily_pl) = 1
  /\ state.holdings # disk.holdings

\* mid_price failed for the signal in hand
QuoteFailed == calls # <<>> /\ calls[1].op = "mid_price" /\ ~calls[1].ret.ok

\* the holdings check of pre_check, as the code makes it
HoldingsCheckPasses ==
  LET sig == ctl.sig
      have == IF sig.asset = "Stock" THEN position_qty_stock(state, sig.symbol)
              ELSE position_qty_option(state, sig.symbol, sig.strike,
                                       sig.call_put, sig.expiry_mmdd)
  IN  sig.action = "STC" => have >= sig.quantity

\* the risk check of the signal in hand is made in this step
RiskChecked == ctl.pc = "risk_cs" /\ ctl' # ctl

\* C33 as claimed: when the quote lookup failed for a signal without a
\* limit price, the estimate is 0 and the signal proceeds to order placement
\* if the holdings check passes, whatever the quantity and the cap.
C33_FailedQuoteProceeds ==
  [][ RiskChecked /\ QuoteFailed =>
        /\ ctl.sig.limit_price = 0
        /\ ctl.est_price = 0
        /\ IF HoldingsCheckPasses
           THEN ctl' = [ctl EXCEPT !.pc = "place"]
           ELSE ctl' = IdleCtl
    ]_vars

\* C33, amended: when the quote lookup failed for a signal without a limit
\* price, the estimate is 0, so the notional check passes for every quantity
\* and every cap that is not negative: the signal is rejected only by the
\* holdings check, and when that passes it proceeds to order placement
\* unless the run is a dry run, in which it is logged and dropped.
C33_FailedQuoteProceedsUnlessDryRun ==
  [][ RiskChecked /\ QuoteFailed =>
        /\ ctl.sig.limit_price = 0
        /\ ctl.est_price = 0
        /\ pre_check(cfg.max_position_value, ctl.sig, ctl.est_price, state)
             = HoldingsCheckPasses
        /\ IF HoldingsCheckPasses /\ ~cfg.dry_run
           THEN ctl' = [ctl EXCEPT !.pc = "place"]
           ELSE ctl' = IdleCtl
    ]_vars

\* an order of MaxQty whose quote failed is being placed under the cap 0
C33_Witness ==
  /\ QuoteFailed
  /\ ctl.pc = "place"
  /\ ctl.sig.quantity = MaxQty
  /\ ctl.sig.asset = "Option"
  /\ cfg.max_position_value = 0

\* C34 as claimed: every spawned monitor eventually finishes its protocol,
\* given that each brokerage call eventually returns and time advances: a
\* monitor that is running is eventually at the end of its function.
C34_MonitorsFinish ==
  \A m \in Monitors : InFlight(m) ~> (mon[m].pc = "done")

\* the instrument monitor m trades, and the sell monitors whose order is
\* submitted while nothing of it is committed to the ledger yet
MonitorKey(m) ==
  IF mon[m].kind = "Stock" THEN <<"Stock", to_ascii_uppercase(mon[m].symbol)>>
  ELSE <<"Option", to_ascii_uppercase(mon[m].symbol), mon[m].strike,
         to_ascii_uppercase(mon[m].cp), mon[m].expiry>>

Uncommitted(m) ==
  mon[m].action = "STC" /\ mon[m].pc \in {"poll", "sleep", "lock_fill", "cs_fill"}

PendingSells(key) ==
  SumSeq([m \in Monitors |->
            IF Uncommitted(m) /\ MonitorKey(m) = key THEN mon[m].qty ELSE 0])

\* the risk check of this step lets a sell signal through to its placement
SellAccepted ==
  ctl.pc = "risk_cs" /\ ctl'.pc = "place" /\ ctl.sig.action = "STC"

\* C35 as claimed: for every instrument, the quantities of the sell orders
\* submitted and not yet committed add up to no more than the ledger holds
\* of it; and a sell signal is accepted only if the holding covers it on top
\* of the sell orders of the instrument still being monitored.
C35_PendingSellsCovered ==
  /\ [](\A m \in Monitors :
          Uncommitted(m) =>
            PendingSells(MonitorKey(m)) <= HeldQty(state, MonitorKey(m)))
  /\ [][ SellAccepted =>
           HeldQty(state, SignalKey(ctl.sig)) >=
             ctl.sig.quantity + PendingSells(SignalKey(ctl.sig)) ]_vars


Filled(i) == IF i \in DOMAIN book THEN book[i].filled ELSE 0

\* C36: of a single STC signal, what fills at the brokerage over the original
\* limit order and the follow-up market order together never exceeds the
\* quantity the signal asked for, however the fills fall between the last
\* poll, the cancel and the follow-up
C36_FillsWithinRequest == Filled(1) + Filled(2) <= book[1].qty


Held == position_qty_stock(state, "AAPL")

RECURSIVE Upserted(_)
Upserted(l) ==
  IF l = <<>> THEN 0
  ELSE (IF Head(l).op = "upsert" THEN Head(l).qty ELSE 0) + Upserted(Tail(l))

CommittedFillKept == Upserted(log[1]) <= Held

FillCountedOnce == Held <= Filled(1)

\* C37: with a resync that fetches its snapshot without the lock and then
\* replaces the holdings under it, every fill of the brokerage is in the
\* holdings once: the ledger never holds more than the brokerage has filled
\* (no fill counted twice) and never less than the monitor has committed (no
\* committed fill overwritten by a snapshot taken before the fill)
C37_FillsReflectedOnce == CommittedFillKept /\ FillCountedOnce


PollFailed(m, phase) ==
  /\ mon[m].pc = IF phase = 1 THEN "poll" ELSE "poll2"
  /\ \E i \in (Len(log[m]) + 1)..Len(log'[m]) : log'[m][i].op = "poll_err"

Did(m, ops) == \E i \in DOMAIN log'[m] : log'[m][i].op \in ops

Rests(m) == mon[m].pc = "done" /\ mon'[m].pc = "done" /\ log'[m] = log[m]

\* C38: when get_order_info fails while the original order is polled, the
\* monitor ends at once: the ledger and its file are as they were, and it has
\* mutated nothing, cancelled nothing and placed nothing; when it fails while
\* the follow-up order is polled, the monitor ends with the ledger as the
\* commit of the original order left it; and a monitor that has ended does
\* nothing more
C38_FailedPollEndsMonitor ==
  [][\A m \in Monitors :
       /\ PollFailed(m, 1) =>
            /\ mon'[m].pc = "done"
            /\ state' = state /\ disk' = disk /\ book' = book
            /\ ~Did(m, {"upsert", "realize", "save", "cancel", "cancel_ret",
                        "place_market", "placed"})
       /\ PollFailed(m, 2) =>
            /\ mon'[m].pc = "done"
            /\ state' = state /\ disk' = disk /\ book' = book
       /\ mon[m].pc = "done" => Rests(m) /\ state' = state]_vars

C38_Witness ==
  /\ mon[1].pc = "done"
  /\ log[1][Len(log[1])].op = "poll_err"
  /\ log[1][Len(log[1])].phase = 2
  /\ \E i \in DOMAIN log[1] : log[1][i].op = "realize" /\ log[1][i].qty > 0
  /\ state.daily_pl # <<>>


Keyed(h, c) ==
  IF c.op = "realize_stock" THEN MatchStock(h, c.symbol)
  ELSE MatchOption(h, c.symbol, c.strike, c.cp, c.expiry)

Unmatched(c) ==
  /\ c.op \in {"realize_stock", "realize_option"}
  /\ \A i \in DOMAIN c.before.holdings : ~Keyed(c.before.holdings[i], c)

\* C39: a realize sell on a ledger where no holding has the instrument's key
\* returns 0 and leaves the ledger as it was: the holdings and daily_pl are
\* unchanged, so no PlEntry is appended
C39_UnmatchedSellIsNoOp ==
  \A k \in DOMAIN calls :
    Unmatched(calls[k]) =>
      /\ calls[k].ret = RInt(0)
      /\ calls[k].after.holdings = calls[k].before.holdings
      /\ calls[k].after.daily_pl = calls[k].before.daily_pl

C39_Witness ==
  \E k \in DOMAIN calls :
    /\ Unmatched(calls[k])
    /\ calls[k].op = "realize_option"
    /\ \E i \in DOMAIN calls[k].before.holdings :
         /\ calls[k].before.holdings[i].kind = "Option"
         /\ calls[k].before.holdings[i].expiry_mmdd = SnapshotExpiry
    /\ k > 1 /\ calls[k - 1].op = "set_holdings"


Requested == log[1][1].qty

PlacedQty ==
  LET P == {i \in DOMAIN log[1] : log[1][i].op = "place_market"}
  IN  IF P = {} THEN 0 ELSE log[1][CHOOSE i \in P : TRUE].qty

ReportsWithinOrder ==
  \A i \in DOMAIN log[1] :
    log[1][i].op = "polled" =>
      log[1][i].qty <= IF log[1][i].phase = 1 THEN Requested ELSE PlacedQty

RECURSIVE SoldQty(_)
SoldQty(pl) == IF pl = <<>> THEN 0 ELSE Head(pl).qty + SoldQty(Tail(pl))

\* C40: for one sell signal, while the brokerage reports no filled quantity
\* above the quantity of the order it reports on, the quantities of the
\* PlEntries its monitor appends (original order and follow-up together) sum
\* to at most the quantity the signal asked for; and no holding's quantity is
\* ever negative after a realize
C40_RecordedSalesWithinRequest ==
  /\ log[1][1].action = "STC" /\ ReportsWithinOrder
       => SoldQty(state.daily_pl) <= Requested
  /\ \A i \in DOMAIN state.holdings : state.holdings[i].quantity >= 0

C40_Witness ==
  /\ log[1][1].action = "STC"
  /\ ReportsWithinOrder
  /\ Len(state.daily_pl) = 2
  /\ Requested = MaxQty
  /\ SoldQty(state.daily_pl) = Requested
  /\ mon[1].pc = "done"

=============================================================================
